---------------------------- MODULE Spec2Model ----------------------------
(***************************************************************************)
(* A model of workday_scraper.py: the WorkdayFormMapper session (login,    *)
(* breadth-first crawl, per-page extraction, label resolution, export and  *)
(* cleanup) and the main() driver around it.                               *)
(*                                                                         *)
(* The browser is the environment.  What a query, a navigation or a click  *)
(* answers is drawn from small sets; what the program does with the answer *)
(* is translated from the source.                                          *)
(***************************************************************************)
EXTENDS Integers, Sequences, FiniteSets, TLC

VARIABLES
    pc,                 \* position of main(): "main", "login", "loop", "returned", "cleanup", "exit"
    max_pages,          \* config['max_pages']
    page_url,           \* self.page.url
    visited_urls,       \* self.visited_urls
    pages_to_visit,     \* crawl_and_extract: pages_to_visit
    pages_processed,    \* crawl_and_extract: pages_processed
    all_form_elements,  \* self.all_form_elements
    result,             \* what crawl_and_extract returned: <<>> before it returns, <<list>> after
    artifact,           \* the exported JSON document: <<>> or <<[metadata, form_elements]>>
    login_state,        \* what login() did: [called, ret, exhausted]
    held,               \* handles main()'s session holds: self.playwright/browser/context/page
    released,           \* cleanup(): [closed, failed], the handles closed and the one whose close raised
    exit_path,          \* how main() reached its finally block
    marked,             \* history: every URL that was ever added to visited_urls
    ev,                 \* the last step of the crawl: what it did and to which URL
    lg,                 \* login(): position, strategy index and per-strategy log
    lab                 \* one call of _find_element_label: the control and the outcome

vars == <<pc, max_pages, page_url, visited_urls, pages_to_visit, pages_processed,
          all_form_elements, result, artifact, login_state, held, released,
          exit_path, marked, ev, lg, lab>>

(***************************************************************************)
(* Text.  A Python string is a sequence of tokens; a token is a run of     *)
(* non-blank characters or the single blank " ".  An attribute value is    *)
(* <<>> (None) or <<text>>.                                                *)
(***************************************************************************)
Blank == " "

RECURSIVE TextLen(_)
TextLen(t) == IF t = <<>> THEN 0 ELSE Len(Head(t)) + TextLen(Tail(t))

RECURSIVE LStrip(_)
LStrip(t) == IF t # <<>> /\ Head(t) = Blank THEN LStrip(Tail(t)) ELSE t

RECURSIVE RStrip(_)
RStrip(t) ==
    IF t # <<>> /\ t[Len(t)] = Blank THEN RStrip(SubSeq(t, 1, Len(t) - 1)) ELSE t

\* str.strip()
Strip(t) == RStrip(LStrip(t))

RECURSIVE Join(_)
Join(t) == IF t = <<>> THEN "" ELSE Head(t) \o Join(Tail(t))

\* re.sub(r'\s+', ' ', line): runs of blanks collapse to one blank
RECURSIVE CollapseBlanks(_)
CollapseBlanks(t) ==
    IF Len(t) < 2 THEN t
    ELSE IF t[1] = Blank /\ t[2] = Blank THEN CollapseBlanks(Tail(t))
    ELSE <<Head(t)>> \o CollapseBlanks(Tail(t))

None == <<>>
Some(t) == <<t>>
\* Python truthiness of an Optional[str]
Truthy(a) == a # None /\ TextLen(a[1]) > 0


(***************************************************************************)
(* The vocabulary of identifier pieces.  re and str.title() look inside a  *)
(* string; the model decides them per token from these tables.             *)
(***************************************************************************)
Separators == {"_", "-"}
\* [A-Z] at the start of the token
StartsUpper(w) == w \in {"Name", "Address", "Box"}
\* [a-z] at the end of the token
EndsLower(w) == w \notin (Separators \cup {Blank, ""})
IsLetters(w) == w \notin (Separators \cup {Blank, ""})
Capitalized(w) ==
    CASE w \in {"first", "First"} -> "First"
      [] w \in {"name", "Name"} -> "Name"
      [] w \in {"email", "Email"} -> "Email"
      [] w \in {"address", "Address"} -> "Address"
      [] w \in {"text", "Text"} -> "Text"
      [] w \in {"box", "Box"} -> "Box"
      [] w \in {"q", "Q"} -> "Q"
      [] w \in {"required", "Required"} -> "Required"
      [] w \in {"agree", "Agree"} -> "Agree"
      [] OTHER -> w
Lowered(w) ==
    CASE w \in {"first", "First"} -> "first"
      [] w \in {"name", "Name"} -> "name"
      [] w \in {"email", "Email"} -> "email"
      [] w \in {"address", "Address"} -> "address"
      [] w \in {"text", "Text"} -> "text"
      [] w \in {"box", "Box"} -> "box"
      [] w \in {"q", "Q"} -> "q"
      [] w \in {"required", "Required"} -> "required"
      [] w \in {"agree", "Agree"} -> "agree"
      [] w = "Select..." -> "select..."
      [] w = "Unnamed" -> "unnamed"
      [] w = "Field:" -> "field:"
      [] OTHER -> w

\* re.sub(r'[_-]', ' ', s)
SubSeparators(t) == [i \in 1..Len(t) |-> IF t[i] \in Separators THEN Blank ELSE t[i]]

\* re.sub(r'([a-z])([A-Z])', r'\1 \2', s)
RECURSIVE SplitCamel(_)
SplitCamel(t) ==
    IF Len(t) < 2 THEN t
    ELSE IF EndsLower(t[1]) /\ StartsUpper(t[2])
         THEN <<t[1], Blank>> \o SplitCamel(Tail(t))
         ELSE <<t[1]>> \o SplitCamel(Tail(t))

\* str.title(): a letter after a non-letter is upper-cased, the others lower-cased
TitleCase(t) ==
    [i \in 1..Len(t) |->
        IF ~IsLetters(t[i]) THEN t[i]
        ELSE IF i = 1 \/ ~IsLetters(t[i - 1]) THEN Capitalized(t[i])
        ELSE Lowered(t[i])]

\* lines 1016-1018 and 1022-1024: the readable name of an identifier
ReadableName(t) == TitleCase(SplitCamel(SubSeparators(t)))

(***************************************************************************)
(* A control handle.  attrs is what get_attribute answers; the other       *)
(* fields are what the label, required-ness and option probes see around   *)
(* the control.  A probe answer has st = "none" (nothing found), "ok" or   *)
(* "raise" (the browser call raised).                                      *)
(***************************************************************************)
AttrNames == {"data-automation-id", "id", "name", "type", "aria-label",
              "aria-labelledby", "placeholder", "required", "aria-required",
              "class", "multiple", "accept", "value"}

GetAttribute(c, n) == c.attrs[n]

NoProbe == [st |-> "none", visible |-> FALSE, text |-> <<>>]
Found(vis, t) == [st |-> "ok", visible |-> vis, text |-> t]
Raises == [st |-> "raise", visible |-> FALSE, text |-> <<>>]

\* the outcome of a call that returns a string (a text) or raises
Returned(t) == [ok |-> TRUE, text |-> t]
Raised == [ok |-> FALSE, text |-> <<"NameError">>]

(***************************************************************************)
(* _find_element_label, lines 911-1031.                                    *)
(***************************************************************************)
\* lines 959 and 977: the length window of a label text
LabelMinLen == 5
LabelMaxLen == 200
\* line 1000: the length window of a question-like line
LineMaxLen == 150
\* line 1014: an automation id is "meaningful" if longer than this
MeaningfulIdLen == 5
\* line 966: ancestor levels scanned
AncestorLevels == 4

\* the except handler, lines 1029-1031: the f-string reads input_type, which is
\* no name of _find_element_label's scope, so the handler itself raises
LabelExceptHandler == Raised

\* Strategy 9, line 1027: f"Unnamed {element_type or input_type} field".  When the
\* type attribute is missing or empty, `or` evaluates input_type: a NameError,
\* raised inside the try, so the handler runs.
FallbackLabel(c) ==
    IF Truthy(GetAttribute(c, "type"))
    THEN Returned(<<"Unnamed", Blank>> \o GetAttribute(c, "type")[1] \o <<Blank, "field">>)
    ELSE LabelExceptHandler

\* Strategy 8, lines 1009-1024
LabelFromAttributes(c) ==
    LET automation_id == GetAttribute(c, "data-automation-id")
        element_name == GetAttribute(c, "name")
    IN  IF Truthy(automation_id) /\ TextLen(automation_id[1]) > MeaningfulIdLen
        THEN Returned(ReadableName(automation_id[1]))
        ELSE IF Truthy(element_name)
        THEN Returned(ReadableName(element_name[1]))
        ELSE FallbackLabel(c)

\* line 1000-1003: a question-like line
QuestionLike(clean_line, hasVerb) ==
    /\ LabelMinLen < TextLen(clean_line)
    /\ TextLen(clean_line) < LineMaxLen
    /\ \/ clean_line[Len(clean_line)] \in {"?", ":"}
       \/ hasVerb

\* lines 996-1004: the first question-like line of the parent's text, <<>> if none.
\* A line is [text, verb]: verb says the line contains enter/select/choose/provide.
RECURSIVE FirstQuestionLine(_)
FirstQuestionLine(lines) ==
    IF lines = <<>> THEN <<>>
    ELSE LET clean_line == Strip(CollapseBlanks(Head(lines).text))
         IN  IF QuestionLike(clean_line, Head(lines).verb)
             THEN <<clean_line>>
             ELSE FirstQuestionLine(Tail(lines))

\* Strategy 7, lines 990-1006 (its own try/except: a failure is passed over)
LabelFromNearbyText(c) ==
    LET found == IF c.parent_text.st = "ok"
                 THEN FirstQuestionLine(c.parent_text.lines) ELSE <<>>
    IN  IF found # <<>> THEN Returned(found[1]) ELSE LabelFromAttributes(c)

\* Strategy 6, lines 985-987
LabelFromPlaceholder(c) ==
    LET placeholder == GetAttribute(c, "placeholder")
    IN  IF Truthy(placeholder) /\ TextLen(Strip(placeholder[1])) > 0
        THEN Returned(<<"Field:", Blank>> \o Strip(placeholder[1]))
        ELSE LabelFromNearbyText(c)

\* lines 959 and 977
InLabelWindow(t) ==
    LabelMinLen < TextLen(Strip(t)) /\ TextLen(Strip(t)) < LabelMaxLen

\* lines 974-978: the first visible, well-sized label in one ancestor, <<>> if none
RECURSIVE FirstLabelIn(_)
FirstLabelIn(labels) ==
    IF labels = <<>> THEN <<>>
    ELSE IF Head(labels).visible /\ InLabelWindow(Head(labels).text)
    THEN <<Strip(Head(labels).text)>>
    ELSE FirstLabelIn(Tail(labels))

\* Strategy 5, lines 965-982: up to 4 levels; no parent or a raising query ends the scan
RECURSIVE AncestorLabel(_, _)
AncestorLabel(ancestors, level) ==
    IF level >= AncestorLevels \/ ancestors = <<>> \/ Head(ancestors).st # "ok"
    THEN <<>>
    ELSE LET hit == FirstLabelIn(Head(ancestors).labels)
         IN  IF hit # <<>> THEN hit ELSE AncestorLabel(Tail(ancestors), level + 1)

LabelFromAncestors(c) ==
    LET hit == AncestorLabel(c.ancestors, 0)
    IN  IF hit # <<>> THEN Returned(hit[1]) ELSE LabelFromPlaceholder(c)

\* Strategy 4, lines 954-962: the answers of the seven structural selectors, in
\* their order; a raising selector is passed over
RECURSIVE NearLabel(_)
NearLabel(near) ==
    IF near = <<>> THEN <<>>
    ELSE IF Head(near).st = "ok" /\ Head(near).visible /\ InLabelWindow(Head(near).text)
    THEN <<Strip(Head(near).text)>>
    ELSE NearLabel(Tail(near))

LabelFromStructure(c) ==
    LET hit == NearLabel(c.near)
    IN  IF hit # <<>> THEN Returned(hit[1]) ELSE LabelFromAncestors(c)

\* Strategy 3, lines 932-938: no try of its own, a raising query reaches the handler
LabelFromForLabel(c) ==
    LET element_id == GetAttribute(c, "id")
    IN  IF ~Truthy(element_id) THEN LabelFromStructure(c)
        ELSE IF c.for_label.st = "raise" THEN LabelExceptHandler
        ELSE IF c.for_label.st = "ok" /\ TextLen(Strip(c.for_label.text)) > 0
        THEN Returned(Strip(c.for_label.text))
        ELSE LabelFromStructure(c)

\* Strategy 2, lines 920-929 (its own try/except)
LabelFromLabelledBy(c) ==
    LET labelledby == GetAttribute(c, "aria-labelledby")
    IN  IF /\ Truthy(labelledby)
           /\ c.labelledby.st = "ok"
           /\ TextLen(Strip(c.labelledby.text)) > 0
        THEN Returned(Strip(c.labelledby.text))
        ELSE LabelFromForLabel(c)

\* Strategy 1, lines 915-917, and with it the whole chain
FindElementLabel(c) ==
    LET aria_label == GetAttribute(c, "aria-label")
    IN  IF Truthy(aria_label) /\ TextLen(Strip(aria_label[1])) > 0
        THEN Returned(Strip(aria_label[1]))
        ELSE LabelFromLabelledBy(c)


(***************************************************************************)
(* Substring tests.  `kw in s.lower()` is decided per token: a token       *)
(* contains its own lower-case form and the keywords listed for it.        *)
(***************************************************************************)
KeywordsOf(w) ==
    {Lowered(w)} \cup
    (CASE Lowered(w) = "telephone" -> {"tel", "phone"}
       [] Lowered(w) = "surname" -> {"name"}
       [] Lowered(w) = "applicant" -> {"applicant"}
       [] Lowered(w) = "wd-required" -> {"required"}
       [] Lowered(w) = "select..." -> {"select"}
       [] OTHER -> {})

\* kw in t.lower(), kw a single word
Contains(t, kw) == \E i \in 1..Len(t) : kw \in KeywordsOf(t[i])

\* kw in t.lower(), kw two words with a blank between
ContainsPair(t, w1, w2) ==
    \E i \in 1..Len(t) - 2 :
        w1 \in KeywordsOf(t[i]) /\ t[i + 1] = Blank /\ w2 \in KeywordsOf(t[i + 2])

AnyWord(t, kws) == \E kw \in kws : Contains(t, kw)

\* `a or ''`
OrEmpty(a) == IF a = None THEN <<>> ELSE a[1]

(***************************************************************************)
(* _is_element_required, lines 1033-1076.  c.req_fail is the probe whose   *)
(* browser call raises (0: none): 1 required, 2 aria-required, 3 class,    *)
(* 4 the parent query, 5 the indicator query, 6 inner_html, 7 the parent's *)
(* class.                                                                  *)
(***************************************************************************)
\* lines 1046-1068, inside the inner try: a raise ends in `pass`, then False
RequiredByWorkdayIndicators(c) ==
    IF c.req_fail = 3 THEN FALSE
    ELSE IF Contains(OrEmpty(GetAttribute(c, "class")), "required") THEN TRUE
    ELSE IF c.req_fail = 4 \/ ~c.parent.present THEN FALSE
    ELSE IF c.req_fail = 5 THEN FALSE
    ELSE IF c.parent.indicators > 0 THEN TRUE
    ELSE IF c.req_fail = 6 THEN FALSE
    ELSE IF /\ TextLen(c.parent.html) > 0
            /\ (Contains(c.parent.html, "*") \/ Contains(c.parent.html, "required"))
         THEN TRUE
    ELSE IF c.req_fail = 7 THEN FALSE
    ELSE Contains(OrEmpty(c.parent.class), "required")

\* _is_element_required without Strategy 1, the native required attribute
IsElementRequiredNoNative(c) ==
    IF c.req_fail = 1 \/ c.req_fail = 2 THEN FALSE
    ELSE IF GetAttribute(c, "aria-required") = Some(<<"true">>) THEN TRUE
    ELSE RequiredByWorkdayIndicators(c)

IsElementRequired(c) ==
    IF c.req_fail = 1 THEN FALSE
    ELSE IF GetAttribute(c, "required") # None THEN TRUE
    ELSE IF c.req_fail = 2 THEN FALSE
    ELSE IF GetAttribute(c, "aria-required") = Some(<<"true">>) THEN TRUE
    ELSE RequiredByWorkdayIndicators(c)

(***************************************************************************)
(* FormElement (lines 47-55) and _get_element_data (lines 883-909).        *)
(* options and user_data_select_values are None or <<list>>.               *)
(***************************************************************************)
FormElement(label, element_id, required, input_type) ==
    [label |-> label, id_of_input_component |-> element_id, required |-> required,
     type_of_input |-> input_type, options |-> None,
     user_data_select_values |-> None]

\* line 891: f"element_{abs(hash(str(element)))}", c.hash the digits
SynthesizedId(c) == "element_" \o c.hash

\* lines 887-892: the first truthy of automation id, id and name, else synthesized
ElementId(c) ==
    LET automation_id == GetAttribute(c, "data-automation-id")
        dom_id == GetAttribute(c, "id")
        name == GetAttribute(c, "name")
    IN  IF Truthy(automation_id) THEN Join(automation_id[1])
        ELSE IF Truthy(dom_id) THEN Join(dom_id[1])
        ELSE IF Truthy(name) THEN Join(name[1])
        ELSE SynthesizedId(c)

\* lines 900-909: None when the label resolver raised (the except of line 907),
\* else <<element>>
ElementDataFrom(label, c, input_type) ==
    IF ~label.ok THEN None
    ELSE Some(FormElement(label.text, ElementId(c), IsElementRequired(c), input_type))

GetElementData(c, input_type) == ElementDataFrom(FindElementLabel(c), c, input_type)

\* `if element_data and element_data.id_of_input_component`
Usable(element_data) ==
    element_data # None /\ element_data[1].id_of_input_component # ""

(***************************************************************************)
(* Sample values: _generate_sample_text_value (lines 547-589) and          *)
(* _generate_sample_date (lines 821-846).                                  *)
(***************************************************************************)
GenerateSampleTextValue(label, c) ==
    LET input_type == IF Truthy(GetAttribute(c, "type"))
                      THEN Join(GetAttribute(c, "type")[1]) ELSE "text"
    IN  IF Contains(label, "email") \/ input_type = "email" THEN "test@example.com"
        ELSE IF AnyWord(label, {"phone", "mobile", "tel"}) THEN "+1-555-123-4567"
        ELSE IF ContainsPair(label, "first", "name") \/ ContainsPair(label, "given", "name")
        THEN "John"
        ELSE IF \/ ContainsPair(label, "last", "name")
                \/ ContainsPair(label, "family", "name")
                \/ Contains(label, "surname")
        THEN "Doe"
        ELSE IF AnyWord(label, {"name", "applicant"}) THEN "John Doe"
        ELSE IF Contains(label, "address")
        THEN IF ContainsPair(label, "line", "2") \/ Contains(label, "apt")
             THEN "Apt 123" ELSE "123 Main Street"
        ELSE IF Contains(label, "city") THEN "New York"
        ELSE IF AnyWord(label, {"state", "province"}) THEN "NY"
        ELSE IF AnyWord(label, {"zip", "postal"}) THEN "10001"
        ELSE IF input_type = "number" \/ AnyWord(label, {"years", "salary", "gpa"})
        THEN "5"
        ELSE IF input_type = "url" \/ AnyWord(label, {"website", "url"})
        THEN "https://example.com"
        ELSE "Sample Text"

GenerateSampleDate(label) ==
    IF AnyWord(label, {"birth", "born", "dob"}) THEN "1990-01-15"
    ELSE IF AnyWord(label, {"start", "begin", "from"}) THEN "2020-01-01"
    ELSE IF AnyWord(label, {"end", "until", "to", "finish"}) THEN "2023-12-31"
    ELSE IF AnyWord(label, {"graduation", "graduate", "degree"}) THEN "2022-05-15"
    ELSE IF AnyWord(label, {"available", "prefer", "earliest"}) THEN "2024-02-01"
    ELSE "2023-06-15"


(***************************************************************************)
(* _get_select_options, lines 1078-1205.                                   *)
(*   c.native: [st, entries], the answer of query_selector_all('option'),  *)
(*             an entry [text, value, raises];                             *)
(*   c.custom: [open_ok, popups, typeahead_ok, suggestions]: whether the   *)
(*             scroll and the activating click succeed, the answers of the *)
(*             popup-option selectors that found something, whether the    *)
(*             clear and type of lines 1150-1151 succeed (a failure is the *)
(*             clear's), and the answers of the suggestion                 *)
(*             selectors; an answer is [st, items], an item                *)
(*             [visible, text, raises].                                    *)
(***************************************************************************)
\* line 1130, line 1164, line 1201, line 1135
PopupLimit == 20
SuggestionLimit == 10
OptionsCap == 15
OptionMaxLen == 100

LowerText(t) == Join([i \in 1..Len(t) |-> Lowered(t[i])])

\* line 1095
NativePlaceholders ==
    {"", "select...", "choose...", "please select", "-- select --", "select an option"}
\* line 1137
PopupPlaceholders == {"select...", "choose...", "loading..."}

InSeq(x, q) == \E i \in 1..Len(q) : q[i] = x

Take(q, n) == SubSeq(q, 1, IF Len(q) < n THEN Len(q) ELSE n)

\* lines 1087-1098 with the value preferred over the text
RECURSIVE NativeOptionsValueFirst(_)
NativeOptionsValueFirst(entries) ==
    IF entries = <<>> THEN <<>>
    ELSE IF Head(entries).raises \/ ~Truthy(Head(entries).value)
    THEN NativeOptionsValueFirst(Tail(entries))
    ELSE <<Join(Strip(Head(entries).value[1]))>> \o NativeOptionsValueFirst(Tail(entries))

\* lines 1087-1098
RECURSIVE NativeOptions(_)
NativeOptions(entries) ==
    IF entries = <<>> THEN <<>>
    ELSE LET e == Head(entries)
             option_text == IF TextLen(e.text) > 0 THEN Strip(e.text)
                            ELSE Strip(OrEmpty(e.value))
         IN  IF /\ ~e.raises
                /\ TextLen(option_text) > 0
                /\ LowerText(option_text) \notin NativePlaceholders
             THEN <<Join(option_text)>> \o NativeOptions(Tail(entries))
             ELSE NativeOptions(Tail(entries))

\* lines 1130-1140: the options of one popup selector's matches, added to `options`
RECURSIVE PopupItems(_, _)
PopupItems(items, options) ==
    IF items = <<>> THEN options
    ELSE LET o == Head(items)
             keep == /\ ~o.raises
                     /\ o.visible
                     /\ TextLen(Strip(o.text)) > 0
                     /\ TextLen(Strip(o.text)) < OptionMaxLen
                     /\ ~InSeq(Join(Strip(o.text)), options)
                     /\ LowerText(Strip(o.text)) \notin PopupPlaceholders
         IN  PopupItems(Tail(items),
                        IF keep THEN Append(options, Join(Strip(o.text))) ELSE options)

\* lines 1123-1145: selector by selector, stopping at the first that gave options
RECURSIVE PopupOptions(_, _)
PopupOptions(popups, options) ==
    IF popups = <<>> THEN options
    ELSE LET got == IF Head(popups).st = "ok"
                    THEN PopupItems(Take(Head(popups).items, PopupLimit), options)
                    ELSE options
         IN  IF got # <<>> THEN got ELSE PopupOptions(Tail(popups), got)

\* lines 1164-1168: [options, raised]; a raising suggestion ends the typeahead probe
RECURSIVE SuggestionItems(_, _)
SuggestionItems(items, options) ==
    IF items = <<>> THEN [options |-> options, raised |-> FALSE]
    ELSE LET g == Head(items)
         IN  IF g.raises THEN [options |-> options, raised |-> TRUE]
             ELSE SuggestionItems(Tail(items),
                    IF /\ g.visible
                       /\ TextLen(Strip(g.text)) > 0
                       /\ TextLen(Strip(g.text)) < OptionMaxLen
                    THEN Append(options, Join(Strip(g.text))) ELSE options)

\* lines 1162-1170
RECURSIVE SuggestionOptions(_, _)
SuggestionOptions(suggestions, options) ==
    IF suggestions = <<>> THEN [options |-> options, raised |-> FALSE]
    ELSE IF Head(suggestions).st = "raise" THEN [options |-> options, raised |-> TRUE]
    ELSE LET got == SuggestionItems(Take(Head(suggestions).items, SuggestionLimit), options)
         IN  IF got.raised \/ got.options # <<>> THEN got
             ELSE SuggestionOptions(Tail(suggestions), got.options)

\* lines 1100-1191: the custom-dropdown path
CustomOptions(c) ==
    IF ~c.custom.open_ok THEN <<>>
    ELSE LET popup == PopupOptions(c.custom.popups, <<>>)
         IN  IF popup # <<>> \/ ~c.custom.typeahead_ok THEN popup
             ELSE SuggestionOptions(c.custom.suggestions, popup).options

\* lines 1194-1199: order-preserving removal of duplicates
RECURSIVE UniqueOptions(_, _)
UniqueOptions(options, seen) ==
    IF options = <<>> THEN <<>>
    ELSE IF Head(options) # "" /\ Head(options) \notin seen
    THEN <<Head(options)>> \o UniqueOptions(Tail(options), seen \cup {Head(options)})
    ELSE UniqueOptions(Tail(options), seen)

GetSelectOptions(c) ==
    IF c.native.st = "raise" THEN <<>>
    ELSE LET options == IF c.native.entries # <<>> THEN NativeOptions(c.native.entries)
                        ELSE CustomOptions(c)
         IN  Take(UniqueOptions(options, {}), OptionsCap)

\* the text the control shows: its value property
ControlText(c) == OrEmpty(GetAttribute(c, "value"))

\* line 1147: `if not options` is reached, with nothing from the popup selectors
ReachesTypeahead(c) ==
    /\ c.native.st = "ok" /\ c.native.entries = <<>>
    /\ c.custom.open_ok
    /\ PopupOptions(c.custom.popups, <<>>) = <<>>

\* the text left in the control by lines 1148-1176: clear() and type('a') of lines
\* 1150-1151 leave "a"; the clear() of line 1173 is skipped when a call between
\* raised (the except of line 1175)
TextAfterTypeahead(c, collected) ==
    IF ~c.custom.typeahead_ok THEN ControlText(c)
    ELSE IF collected.raised THEN <<"a">>
    ELSE <<>>

\* lines 1178-1188 are reached: they stand in the try of line 1102 after the
\* scroll and the click, whose exception goes to line 1189; the popup loop and
\* the typeahead probe catch their own
ReachesClose(c) ==
    c.native.st = "ok" /\ c.native.entries = <<>> /\ c.custom.open_ok

\* what _get_select_options did to the control besides reading it: whether it
\* was clicked open (line 1107), whether the probe character was typed (line
\* 1151), whether closing the popup was attempted (lines 1178-1188), and the
\* text it shows on return
SelectEffects(c) ==
    [clicked |-> c.native.st = "ok" /\ c.native.entries = <<>> /\ c.custom.open_ok,
     typed |-> ReachesTypeahead(c) /\ c.custom.typeahead_ok,
     close_attempted |-> ReachesClose(c),
     text |-> IF ReachesTypeahead(c)
              THEN TextAfterTypeahead(c, SuggestionOptions(c.custom.suggestions, <<>>))
              ELSE ControlText(c)]

(***************************************************************************)
(* The page document and the per-category extraction, lines 517-881.       *)
(* A document is the sequence of its controls in document order; c.hits is *)
(* the set of selectors <<category, k>> of form_selectors that match c.    *)
(***************************************************************************)
\* lines 71-117: the number of selectors of each category
SelectorCount(cat) ==
    CASE cat = "text_inputs" -> 9
      [] cat = "textareas" -> 3
      [] cat = "selects" -> 6
      [] cat = "checkboxes" -> 4
      [] cat = "radios" -> 4
      [] cat = "date_inputs" -> 4
      [] cat = "file_inputs" -> 3

RECURSIVE SelectSeqBy(_, _)
SelectSeqBy(q, S) ==
    IF q = <<>> THEN <<>>
    ELSE IF Head(q) \in S THEN <<Head(q)>> \o SelectSeqBy(Tail(q), S)
    ELSE SelectSeqBy(Tail(q), S)

\* page.query_selector_all(selector), every selector of form_selectors ends in :visible
QueryAll(dom, cat, k) ==
    SelectSeqBy(dom, {c \in {dom[i] : i \in 1..Len(dom)} : <<cat, k>> \in c.hits /\ c.visible})

\* the controls in the order the two nested loops reach them: selector by selector
RECURSIVE ScanFrom(_, _, _)
ScanFrom(dom, cat, k) ==
    IF k > SelectorCount(cat) THEN <<>>
    ELSE QueryAll(dom, cat, k) \o ScanFrom(dom, cat, k + 1)

ScanOrder(dom, cat) == ScanFrom(dom, cat, 1)

\* page.query_selector_all(f'input[name="{name}"]'), lines 693 and 756
QueryInputsNamed(dom, name) ==
    SelectSeqBy(dom, {c \in {dom[i] : i \in 1..Len(dom)} :
                        c.tag = "input" /\ GetAttribute(c, "name") = Some(name)})

WithSamples(e, values) == [e EXCEPT !.user_data_select_values = Some(values)]
WithOptions(e, options) == [e EXCEPT !.options = Some(options)]

\* Each builder answers None or <<element>>; the element data and the options are
\* computed once and handed on, as the code holds them in a local.

\* lines 531-535
TextInputFrom(element_data, c) ==
    IF Usable(element_data)
    THEN Some(WithSamples(element_data[1],
                          <<GenerateSampleTextValue(element_data[1].label, c)>>))
    ELSE None

\* lines 530-535
TextInputElement(c) == TextInputFrom(GetElementData(c, "text"), c)

\* lines 605-607
TextareaFrom(element_data) ==
    IF Usable(element_data)
    THEN Some(WithSamples(element_data[1],
                <<"This is sample text area content for testing purposes.">>))
    ELSE None

\* lines 604-607
TextareaElement(c) == TextareaFrom(GetElementData(c, "textarea"))

Min(a, b) == IF a < b THEN a ELSE b

\* lines 644-655
SelectFrom(element_data, options, is_multiple) ==
    IF ~Usable(element_data) THEN None
    ELSE IF options # <<>>
    THEN Some(WithSamples(WithOptions(element_data[1], options),
                SubSeq(options, 1, Min(IF is_multiple THEN 2 ELSE 1, Len(options)))))
    ELSE Some(WithOptions(element_data[1], options))

\* lines 634-641
IsMultiple(c) ==
    \/ GetAttribute(c, "multiple") # None
    \/ Contains(OrEmpty(GetAttribute(c, "data-automation-id")), "multi")

SelectOfKind(c, is_multiple) ==
    SelectFrom(GetElementData(c, IF is_multiple THEN "multiselect" ELSE "select"),
               GetSelectOptions(c), is_multiple)

\* lines 633-655
SelectElement(c) == SelectOfKind(c, IsMultiple(c))

\* lines 805-809
DateFrom(element_data) ==
    IF Usable(element_data)
    THEN Some(WithSamples(element_data[1], <<GenerateSampleDate(element_data[1].label)>>))
    ELSE None

\* lines 804-809
DateElement(c) == DateFrom(GetElementData(c, "date"))

\* lines 862-871: c.accept_parts is accept_attr.split(',')
FileFrom(element_data, c) ==
    IF Usable(element_data)
    THEN Some(WithSamples(
                WithOptions(element_data[1],
                            IF Truthy(GetAttribute(c, "accept")) THEN c.accept_parts
                            ELSE <<".pdf", ".doc", ".docx">>),
                <<"resume.pdf">>))
    ELSE None

\* lines 861-871
FileElement(c) == FileFrom(GetElementData(c, "file"), c)

BuildElement(c, cat) ==
    CASE cat = "text_inputs" -> TextInputElement(c)
      [] cat = "textareas" -> TextareaElement(c)
      [] cat = "selects" -> SelectElement(c)
      [] cat = "date_inputs" -> DateElement(c)
      [] cat = "file_inputs" -> FileElement(c)

\* the loop body shared by _extract_text_inputs, _extract_textareas, _extract_selects,
\* _extract_date_inputs and _extract_file_inputs: skip the invisible and the disabled
RECURSIVE CollectElements(_, _)
CollectElements(scan, cat) ==
    IF scan = <<>> THEN <<>>
    ELSE (IF ~Head(scan).visible \/ Head(scan).disabled THEN <<>>
          ELSE BuildElement(Head(scan), cat))
         \o CollectElements(Tail(scan), cat)

\* _extract_text_inputs, _extract_textareas, _extract_selects, _extract_date_inputs
\* and _extract_file_inputs
ExtractPlain(dom, cat) == CollectElements(ScanOrder(dom, cat), cat)


\* lines 697-704: the labels of the visible members of a checkbox group; a member
\* whose label resolver raises is passed over (the bare except of line 703)
GroupLabel(cb, cb_label, options) ==
    IF /\ cb.visible
       /\ cb_label.ok
       /\ TextLen(cb_label.text) > 0
       /\ ~InSeq(Join(cb_label.text), options)
    THEN Append(options, Join(cb_label.text)) ELSE options

RECURSIVE GroupLabels(_, _)
GroupLabels(group, options) ==
    IF group = <<>> THEN options
    ELSE GroupLabels(Tail(group),
                     GroupLabel(Head(group), FindElementLabel(Head(group)), options))

\* lines 714-720: the binary option set of a single checkbox
SingleCheckbox(element_data) ==
    IF AnyWord(element_data.label, {"yes", "no", "agree", "consent", "accept"})
    THEN WithSamples(WithOptions(element_data, <<"Yes", "No">>), <<"Yes">>)
    ELSE WithSamples(WithOptions(element_data, <<"Checked", "Unchecked">>), <<"Checked">>)

\* lines 691-722: the element of a checkbox that is no member of a processed group,
\* given its element data, the inputs that share its name and the group's labels
CheckboxFrom(element_data, named, group_checkboxes, options) ==
    IF named /\ Len(group_checkboxes) > 1 /\ options # <<>>
    THEN WithSamples(WithOptions(element_data[1], options), <<options[1]>>)
    ELSE SingleCheckbox(element_data[1])

\* lines 692-711: whether the checkbox is emitted as a group (and its key processed)
IsGroup(named, group_checkboxes, options) ==
    named /\ Len(group_checkboxes) > 1 /\ options # <<>>

\* lines 682-683
GroupKey(checkbox) ==
    IF Truthy(GetAttribute(checkbox, "name")) THEN GetAttribute(checkbox, "name")
    ELSE GetAttribute(checkbox, "data-automation-id")

\* lines 693-704; <<>> for a checkbox without a name
GroupOf(dom, checkbox) ==
    IF Truthy(GetAttribute(checkbox, "name"))
    THEN QueryInputsNamed(dom, GetAttribute(checkbox, "name")[1])
    ELSE <<>>

\* lines 678-686: the checkbox is passed over
CheckboxSkipped(checkbox, processed_groups) ==
    \/ ~checkbox.visible
    \/ checkbox.disabled
    \/ Truthy(GroupKey(checkbox)) /\ Join(GroupKey(checkbox)[1]) \in processed_groups

\* the elements and processed_groups after one checkbox
CheckboxStep(state, checkbox, element_data, group_checkboxes, options) ==
    IF CheckboxSkipped(checkbox, state.processed_groups) \/ ~Usable(element_data)
    THEN state
    ELSE [elements |->
            Append(state.elements,
                   CheckboxFrom(element_data, Truthy(GetAttribute(checkbox, "name")),
                                group_checkboxes, options)),
          processed_groups |->
            IF IsGroup(Truthy(GetAttribute(checkbox, "name")), group_checkboxes, options)
            THEN state.processed_groups \cup {Join(GroupKey(checkbox)[1])}
            ELSE state.processed_groups]

CheckboxVisit(dom, state, checkbox, group_checkboxes) ==
    CheckboxStep(state, checkbox, GetElementData(checkbox, "checkbox"),
                 group_checkboxes, GroupLabels(group_checkboxes, <<>>))

\* _extract_checkboxes, lines 667-732: the loop over the scan, with the elements
\* collected so far and processed_groups
RECURSIVE CheckboxLoop(_, _, _)
CheckboxLoop(dom, scan, state) ==
    IF scan = <<>> THEN state.elements
    ELSE CheckboxLoop(dom, Tail(scan),
                      CheckboxVisit(dom, state, Head(scan), GroupOf(dom, Head(scan))))

ExtractCheckboxes(dom) ==
    CheckboxLoop(dom, ScanOrder(dom, "checkboxes"), [elements |-> <<>>, processed_groups |-> {}])

\* lines 761-769: the options after one member of the group: its value, or its
\* label when it has no value or the value is there already
RadioOption(r, label, options) ==
    IF ~r.visible THEN options
    ELSE IF Truthy(GetAttribute(r, "value")) /\ ~InSeq(Join(GetAttribute(r, "value")[1]), options)
    THEN Append(options, Join(GetAttribute(r, "value")[1]))
    ELSE IF label.ok /\ TextLen(label.text) > 0 /\ ~InSeq(Join(label.text), options)
    THEN Append(options, Join(label.text))
    ELSE options

\* lines 759-771
RECURSIVE RadioOptions(_, _)
RadioOptions(group, options) ==
    IF group = <<>> THEN options
    ELSE RadioOptions(Tail(group),
                      RadioOption(Head(group), FindElementLabel(Head(group)), options))

\* lines 745-751: the radio is passed over
RadioSkipped(radio, processed_groups) ==
    \/ ~radio.visible
    \/ radio.disabled
    \/ ~Truthy(GetAttribute(radio, "name"))
    \/ Join(GetAttribute(radio, "name")[1]) \in processed_groups

\* lines 774-779
RadioFrom(element_data, options) ==
    WithSamples(WithOptions(element_data[1], options), <<options[1]>>)

\* line 775: options if options else ['Option 1', 'Option 2']
OrDefaultOptions(options) == IF options # <<>> THEN options ELSE <<"Option 1", "Option 2">>

\* lines 753-779: the elements and processed_groups after one radio that is not
\* passed over
RadioStep(state, radio, element_data, options) ==
    [elements |-> IF Usable(element_data)
                  THEN Append(state.elements, RadioFrom(element_data, OrDefaultOptions(options)))
                  ELSE state.elements,
     processed_groups |-> state.processed_groups \cup {Join(GetAttribute(radio, "name")[1])}]

RadioVisit(dom, state, radio) ==
    IF RadioSkipped(radio, state.processed_groups) THEN state
    ELSE RadioStep(state, radio, GetElementData(radio, "radio"),
                   RadioOptions(QueryInputsNamed(dom, GetAttribute(radio, "name")[1]), <<>>))

\* _extract_radios, lines 734-789
RECURSIVE RadioLoop(_, _, _)
RadioLoop(dom, scan, state) ==
    IF scan = <<>> THEN state.elements
    ELSE RadioLoop(dom, Tail(scan), RadioVisit(dom, state, Head(scan)))

ExtractRadios(dom) ==
    RadioLoop(dom, ScanOrder(dom, "radios"), [elements |-> <<>>, processed_groups |-> {}])

(***************************************************************************)
(* extract_form_elements, lines 475-515.  A page is [dom, extract_raises]: *)
(* its document, and whether a wait at the top of the extraction raises.   *)
(***************************************************************************)
\* the page's elements with no duplicate removed
UniquePageElementsKeepAll(elements, seen_ids) == elements

\* lines 501-507 keeping the last occurrence of each id instead of the first
RECURSIVE UniquePageElementsKeepLast(_, _)
UniquePageElementsKeepLast(elements, seen_ids) ==
    IF elements = <<>> THEN <<>>
    ELSE IF \E i \in 2..Len(elements) :
                elements[i].id_of_input_component = Head(elements).id_of_input_component
    THEN UniquePageElementsKeepLast(Tail(elements), seen_ids)
    ELSE <<Head(elements)>> \o UniquePageElementsKeepLast(Tail(elements), seen_ids)

\* lines 501-507: first occurrence of each id, order kept
RECURSIVE UniquePageElements(_, _)
UniquePageElements(elements, seen_ids) ==
    IF elements = <<>> THEN <<>>
    ELSE IF Head(elements).id_of_input_component \notin seen_ids
    THEN <<Head(elements)>> \o
         UniquePageElements(Tail(elements),
                            seen_ids \cup {Head(elements).id_of_input_component})
    ELSE UniquePageElements(Tail(elements), seen_ids)

\* lines 492-498: the seven categories in their fixed order
CategoryOrder ==
    <<"text_inputs", "textareas", "selects", "checkboxes", "radios", "date_inputs",
      "file_inputs">>

ExtractCategory(dom, cat) ==
    CASE cat = "checkboxes" -> ExtractCheckboxes(dom)
      [] cat = "radios" -> ExtractRadios(dom)
      [] OTHER -> ExtractPlain(dom, cat)

RECURSIVE ExtractFrom(_, _)
ExtractFrom(dom, cats) ==
    IF cats = <<>> THEN <<>>
    ELSE ExtractCategory(dom, Head(cats)) \o ExtractFrom(dom, Tail(cats))

AllPageElements(dom) == ExtractFrom(dom, CategoryOrder)

ExtractFormElements(page) ==
    IF page.extract_raises THEN <<>>
    ELSE UniquePageElements(AllPageElements(page.dom), {})


(***************************************************************************)
(* URLs.  A URL is [scheme, host, path, query]; urlparse(u).netloc and     *)
(* .path are its fields; two URLs are the same string iff the records are  *)
(* equal.  Paths have one segment.                                         *)
(***************************************************************************)
Url(host, path, query) == [scheme |-> "https", host |-> host, path |-> path, query |-> query]

\* urlparse(self.config['workday_url']).netloc, line 423
BaseDomain == "wd.example"

LoginPage == Url(BaseDomain, "/login", "")
HomePage == Url(BaseDomain, "/home", "")
ApplyPage == Url(BaseDomain, "/apply", "")
ApplyStep2 == Url(BaseDomain, "/apply", "step=2")
ReviewPage == Url(BaseDomain, "/review", "")
LogoutPage == Url(BaseDomain, "/logout", "")
OtherSite == Url("other.example", "/apply", "")

\* config['workday_url']
WorkdayUrl == Url(BaseDomain, "/jobs", "")

\* line 453: any(skip in full_url.lower() for skip in ['logout', 'signout', 'exit', 'cancel'])
HasSkipKeyword(u) == u.path \in {"/logout", "/signout", "/exit", "/cancel"}

\* line 337: any(keyword in current_url for keyword in ['login', 'signin', 'sign-in'])
HasLoginKeyword(u) == u.path \in {"/login", "/signin", "/sign-in"}

(***************************************************************************)
(* find_workday_login_url, lines 153-249.  The site's answers are          *)
(*   goto_ok: whether the first goto succeeds; landed: page.url after it   *)
(*   and its redirects;                                                    *)
(*   entries: per entry selector [st, elements], an element                *)
(*            [visible, raises, to], `to` the page its click loads: None  *)
(*            or <<url>>;                                                  *)
(*   forms: per candidate URL "form" (a login input shows), "none" or      *)
(*          "raise" (goto or the query fails).                             *)
(* A run is [ret, page, clicks, gotos]: the value returned (None while     *)
(* running), page.url, and the clicks and the later gotos performed.       *)
(***************************************************************************)
\* the keywords one finds in url.lower()
UrlKeywords(u) ==
    (CASE u.path \in {"/login", "/Login"} -> {"login"}
       [] u.path = "/signin" -> {"signin"}
       [] u.path = "/sign-in" -> {"sign-in"}
       [] u.path = "/candidate" -> {"candidate"}
       [] OTHER -> {})
    \cup (IF u.query = "next=login" THEN {"login"} ELSE {})

\* line 163: any(keyword in current_url for keyword in ['signin', 'login', 'candidate'])
OnEntryPage(u) == UrlKeywords(u) \cap {"signin", "login", "candidate"} # {}

\* lines 196-211: the visible elements of one selector are clicked in turn; the
\* first click after which page.url differs from start_url ends the search, a
\* raising call ends the selector (the except of line 212)
\* page.url after the click of an entry-point element
AfterClick(element, page) == IF element.to = None THEN page ELSE element.to[1]

RECURSIVE EntryElements(_, _, _)
EntryElements(elements, start_url, run) ==
    IF elements = <<>> \/ Head(elements).raises THEN run
    ELSE IF ~Head(elements).visible THEN EntryElements(Tail(elements), start_url, run)
    ELSE IF AfterClick(Head(elements), run.page) # start_url
    THEN [run EXCEPT !.ret = Some(AfterClick(Head(elements), run.page)),
                     !.page = AfterClick(Head(elements), run.page),
                     !.clicks = @ + 1]
    ELSE EntryElements(Tail(elements), start_url,
                       [run EXCEPT !.page = start_url, !.clicks = @ + 1])

\* lines 193-214
RECURSIVE EntrySelectors(_, _, _)
EntrySelectors(entries, start_url, run) ==
    IF entries = <<>> \/ run.ret # None THEN run
    ELSE EntrySelectors(Tail(entries), start_url,
                        IF Head(entries).st = "raise" THEN run
                        ELSE EntryElements(Head(entries).elements, start_url, run))

\* start_url.replace('/details/', '/').split('?')[0], line 225
WithoutDetails(u) ==
    [u EXCEPT !.path = IF @ = "/details/job" THEN "/job" ELSE @, !.query = ""]

\* lines 217-226
PotentialUrls(start_url) ==
    << Url(start_url.host, "/candidate", ""), Url(start_url.host, "/signin", ""),
       Url(start_url.host, "/login", ""), WithoutDetails(start_url) >>

\* lines 228-241, and the fallback of line 245
RECURSIVE TryPotentialUrls(_, _, _, _, _)
TryPotentialUrls(urls, forms, k, start_url, run) ==
    IF k > Len(urls) THEN [run EXCEPT !.ret = Some(start_url)]
    ELSE IF forms[k] = "form"
    THEN [run EXCEPT !.ret = Some(urls[k]), !.page = urls[k], !.gotos = @ + 1]
    ELSE TryPotentialUrls(urls, forms, k + 1, start_url,
                          [run EXCEPT !.gotos = @ + 1,
                                      !.page = IF forms[k] = "none" THEN urls[k] ELSE @])

AfterEntries(site, start_url, run) ==
    IF run.ret # None THEN run
    ELSE TryPotentialUrls(PotentialUrls(start_url), site.forms, 1, start_url, run)

FindWorkdayLoginUrl(start_url, site) ==
    IF ~site.goto_ok
    THEN [ret |-> Some(start_url), page |-> start_url, clicks |-> 0, gotos |-> 0]
    ELSE IF OnEntryPage(site.landed)
    THEN [ret |-> Some(site.landed), page |-> site.landed, clicks |-> 0, gotos |-> 0]
    ELSE AfterEntries(site, start_url,
            EntrySelectors(site.entries, start_url,
                [ret |-> None, page |-> site.landed, clicks |-> 0, gotos |-> 0]))

(***************************************************************************)
(* find_navigation_links, lines 397-473.  scan is the sequence of matches  *)
(* the two nested loops reach (selector by selector); a match is           *)
(* [visible, raises, href], href None or [form, host, path, query] with    *)
(* form "rooted" (starts with /), "http" or "relative".                    *)
(***************************************************************************)
\* lines 439-444
Resolve(href, current) ==
    CASE href.form = "rooted" -> Url(BaseDomain, href.path, href.query)
      [] href.form = "http" -> Url(href.host, href.path, href.query)
      [] OTHER -> Url(current.host, href.path, href.query)

\* lines 449-453
Accepts(full_url, links, visited, current) ==
    /\ full_url.host = BaseDomain
    /\ full_url \notin visited
    /\ ~InSeq(full_url, links)
    /\ full_url.path # current.path
    /\ ~HasSkipKeyword(full_url)

\* lines 426-466
RECURSIVE NavLoop(_, _, _, _)
NavLoop(scan, links, visited, current) ==
    IF scan = <<>> THEN links
    ELSE LET element == Head(scan)
             full_url == Resolve(element.href[1], current)
         IN  IF element.raises \/ ~element.visible \/ element.href = None
             THEN NavLoop(Tail(scan), links, visited, current)
             ELSE IF Accepts(full_url, links, visited, current)
             THEN NavLoop(Tail(scan), Append(links, full_url), visited, current)
             ELSE NavLoop(Tail(scan), links, visited, current)

\* nav is [raises, scan]: raises, the wait at the top raised (lines 471-473)
FindNavigationLinks(nav, visited, current) ==
    IF nav.raises THEN <<>> ELSE NavLoop(nav.scan, <<>>, visited, current)

(***************************************************************************)
(* crawl_and_extract, lines 1207-1280: the pieces of one loop iteration.   *)
(***************************************************************************)
\* line 1250: new_links[:5]
LinksPerPage == 5

\* the loop condition without the page budget
LoopGuardNoBudget(frontier, processed, budget) == frontier # <<>>

\* line 1221
LoopGuard(frontier, processed, budget) == frontier # <<>> /\ processed < budget

\* line 1224
AlreadyVisited(current_url, visited) == current_url \in visited

\* a line 1235 that adds nothing
MarkVisitedNot(visited, current_url) == visited

\* line 1235
MarkVisited(visited, current_url) == visited \cup {current_url}

\* lines 1250-1252 without the test of line 1251
EnqueueUnfiltered(frontier, links, visited) == frontier \o links

\* lines 1250-1252
RECURSIVE Enqueue(_, _, _)
Enqueue(frontier, links, visited) ==
    IF links = <<>> THEN frontier
    ELSE IF Head(links) \notin visited /\ ~InSeq(Head(links), frontier)
    THEN Enqueue(Append(frontier, Head(links)), Tail(links), visited)
    ELSE Enqueue(frontier, Tail(links), visited)

\* lines 1266-1272
RECURSIVE UniqueCrawlElements(_, _)
UniqueCrawlElements(elements, seen_ids) ==
    IF elements = <<>> THEN <<>>
    ELSE IF Head(elements).id_of_input_component \notin seen_ids
    THEN <<Head(elements)>> \o
         UniqueCrawlElements(Tail(elements),
                             seen_ids \cup {Head(elements).id_of_input_component})
    ELSE UniqueCrawlElements(Tail(elements), seen_ids)

\* an except that empties the accumulator
AfterPageErrorDrops(accumulated) == <<>>

\* lines 1260-1263: what the except of a page's try leaves of the accumulator
AfterPageError(accumulated) == accumulated

\* lines 1300-1314: the exported document
ExportDocument(elements, visited) ==
    [total_elements |-> Len(elements),
     pages_visited |-> Cardinality(visited),
     visited_urls |-> visited,
     form_elements |-> elements]


(***************************************************************************)
(* The site the crawl runs against: the documents a page can show and the  *)
(* navigation matches link discovery can meet.                             *)
(***************************************************************************)
BaseControl ==
    [tag |-> "input", hits |-> {}, visible |-> TRUE, disabled |-> FALSE,
     attrs |-> [n \in AttrNames |-> None], hash |-> "17",
     labelledby |-> NoProbe, for_label |-> NoProbe, near |-> <<>>, ancestors |-> <<>>,
     parent_text |-> [st |-> "none", lines |-> <<>>],
     req_fail |-> 0,
     parent |-> [present |-> FALSE, indicators |-> 0, html |-> <<>>, class |-> None],
     native |-> [st |-> "ok", entries |-> <<>>],
     custom |-> [open_ok |-> FALSE, popups |-> <<>>, typeahead_ok |-> FALSE,
                 suggestions |-> <<>>],
     accept_parts |-> <<>>]

SetAttrs(c, given) ==
    [c EXCEPT !.attrs = [n \in AttrNames |-> IF n \in DOMAIN given THEN given[n] ELSE @[n]]]

\* <input type="email" id="email" aria-label="Email" required>
EmailInput ==
    SetAttrs([BaseControl EXCEPT !.hits = {<<"text_inputs", 2>>}],
             [id |-> Some(<<"email">>), type |-> Some(<<"email">>),
              required |-> Some(<<>>)] @@ ("aria-label" :> Some(<<"Email">>)))

\* <input type="text" data-automation-id="textInputBox">: three selectors match it
BoxInput ==
    SetAttrs([BaseControl EXCEPT
                !.hits = {<<"text_inputs", 1>>, <<"text_inputs", 7>>, <<"text_inputs", 8>>}],
             [type |-> Some(<<"text">>)] @@
             ("data-automation-id" :> Some(<<"text", "Input", "Box">>)))

\* <input type="text" id=""> with nothing to name it: a synthesized id, the
\* fallback label
BareInput ==
    SetAttrs([BaseControl EXCEPT !.hits = {<<"text_inputs", 1>>}, !.hash = "42"],
             [type |-> Some(<<"text">>), id |-> Some(<<>>)])

\* <textarea></textarea> with nothing to name it and no type attribute
BareTextarea ==
    [BaseControl EXCEPT !.tag = "textarea", !.hits = {<<"textareas", 1>>}, !.hash = "99"]

\* <textarea name="email">: the id an input of another page has
EmailTextarea ==
    SetAttrs([BaseControl EXCEPT !.tag = "textarea", !.hits = {<<"textareas", 1>>}],
             [name |-> Some(<<"email">>)])

\* <select id="q"> with a placeholder and two options
QSelect ==
    SetAttrs([BaseControl EXCEPT
                !.tag = "select", !.hits = {<<"selects", 1>>},
                !.native = [st |-> "ok", entries |->
                    << [text |-> <<"Select...">>, value |-> Some(<<>>), raises |-> FALSE],
                       [text |-> <<"first">>, value |-> Some(<<"1">>), raises |-> FALSE],
                       [text |-> <<Blank, "name", Blank>>, value |-> Some(<<"2">>),
                        raises |-> FALSE] >>]],
             [id |-> Some(<<"q">>), name |-> Some(<<"q">>)])

\* two visible checkboxes named "agree"
AgreeBox(label) ==
    SetAttrs([BaseControl EXCEPT !.hits = {<<"checkboxes", 1>>}],
             [name |-> Some(<<"agree">>), type |-> Some(<<"checkbox">>)] @@
             ("aria-label" :> Some(label)))

\* a hidden and a disabled input: never extracted
HiddenInput == [EmailInput EXCEPT !.visible = FALSE]
DisabledInput == [BoxInput EXCEPT !.disabled = TRUE]

Page(dom) == [dom |-> dom, extract_raises |-> FALSE]

Pages ==
    { Page(<<>>),
      Page(<<EmailInput, BoxInput, HiddenInput>>),
      Page(<<BareInput, EmailTextarea, BareTextarea, DisabledInput>>),
      Page(<<QSelect, AgreeBox(<<"first">>), AgreeBox(<<"name">>)>>),
      [dom |-> <<EmailInput>>, extract_raises |-> TRUE] }

Link(form, host, path, query) ==
    [visible |-> TRUE, raises |-> FALSE,
     href |-> Some([form |-> form, host |-> host, path |-> path, query |-> query])]

\* the navigation matches the pages of the site show, in scan order
BackLinks ==
    <<Link("rooted", "", "/jobs", ""), Link("rooted", "", "/login", ""),
      Link("rooted", "", "/home", ""), Link("rooted", "", "/apply", "")>>

StepLinks ==
    <<Link("rooted", "", "/apply", ""), Link("rooted", "", "/apply", "step=2"),
      Link("rooted", "", "/apply", "")>>

OddLinks ==
    <<Link("http", "other.example", "/apply", ""),
      Link("rooted", "", "/logout", ""),
      [Link("rooted", "", "/home", "") EXCEPT !.visible = FALSE],
      [Link("rooted", "", "/home", "") EXCEPT !.raises = TRUE],
      [visible |-> TRUE, raises |-> FALSE, href |-> None],
      Link("relative", "", "/review", "")>>

ManyLinks ==
    <<Link("rooted", "", "/home", ""), Link("rooted", "", "/apply", ""),
      Link("rooted", "", "/apply", "step=2"), Link("rooted", "", "/review", ""),
      Link("rooted", "", "/profile", ""), Link("rooted", "", "/history", "")>>

NavAnswers ==
    {[raises |-> TRUE, scan |-> ManyLinks]} \cup
    {[raises |-> FALSE, scan |-> q] : q \in {<<>>, BackLinks, StepLinks, OddLinks, ManyLinks}}

\* the page budgets tried: config['max_pages'] in 0..MaxBudget
MaxBudget == 2


(***************************************************************************)
(* login, lines 251-395.  What the page answers to one strategy:           *)
(*   email     "timeout" (wait_for_selector raised), "invisible", "visible"*)
(*   password  "absent", "invisible", "visible"                            *)
(*   submit    "absent", "invisible", "visible"                            *)
(*   fill_fail 0, or 1 / 2: clearing or filling the email / password field *)
(*             raises                                                      *)
(*   click_ok  the click on a visible submit control succeeds; a click on  *)
(*             an invisible one waits for it and raises                    *)
(*   check_raises  a wait or query after the click raises                  *)
(*   url, marker, password_visible  what the success indicators see        *)
(***************************************************************************)
\* lines 262-287
LoginStrategies == 4

AllFound ==
    [email |-> "visible", password |-> "visible", submit |-> "visible", fill_fail |-> 0,
     click_ok |-> TRUE, check_raises |-> FALSE, url |-> LoginPage, marker |-> FALSE,
     password_visible |-> TRUE]

\* the answers that differ in something the strategy gets to see
StrategyAnswers ==
    {[AllFound EXCEPT !.email = e] : e \in {"timeout", "invisible"}} \cup
    {[AllFound EXCEPT !.password = p] : p \in {"absent", "invisible"}} \cup
    {[AllFound EXCEPT !.submit = "absent"]} \cup
    {[AllFound EXCEPT !.submit = b, !.fill_fail = f] :
        b \in {"visible", "invisible"}, f \in 0..2} \cup
    {[AllFound EXCEPT !.click_ok = FALSE]} \cup
    {[AllFound EXCEPT !.check_raises = TRUE, !.url = u] : u \in {LoginPage, HomePage}} \cup
    {[AllFound EXCEPT !.url = u, !.marker = m, !.password_visible = v] :
        u \in {LoginPage, HomePage}, m \in BOOLEAN, v \in BOOLEAN}

\* lines 335-342: any(success_indicators)
AnySuccessIndicator(a) ==
    \/ ~HasLoginKeyword(a.url)
    \/ a.marker
    \/ ~a.password_visible

\* lines 308-311: the strategy goes on unless query_selector found no submit control
SubmitLocated(a) == a.submit # "absent"

\* a strategy that takes filled credentials for a login, submitted or not
TryStrategyUnsubmitted(a) ==
    IF a.email # "visible" \/ a.password # "visible" \/ ~SubmitLocated(a)
    THEN [filled |-> 0, clicked |-> FALSE, success |-> FALSE]
    ELSE IF a.fill_fail = 1 THEN [filled |-> 0, clicked |-> FALSE, success |-> FALSE]
    ELSE IF a.fill_fail = 2 THEN [filled |-> 1, clicked |-> FALSE, success |-> FALSE]
    ELSE IF a.submit = "invisible" \/ ~a.click_ok
    THEN [filled |-> 2, clicked |-> FALSE, success |-> TRUE]
    ELSE [filled |-> 2, clicked |-> TRUE,
          success |-> ~a.check_raises /\ AnySuccessIndicator(a)]

\* lines 292-369: what one strategy does: how many fields it filled, whether it
\* clicked submit, whether it ended in `login_success = True`
TryStrategy(a) ==
    IF a.email # "visible" \/ a.password # "visible" \/ ~SubmitLocated(a)
    THEN [filled |-> 0, clicked |-> FALSE, success |-> FALSE]
    ELSE IF a.fill_fail = 1 THEN [filled |-> 0, clicked |-> FALSE, success |-> FALSE]
    ELSE IF a.fill_fail = 2 THEN [filled |-> 1, clicked |-> FALSE, success |-> FALSE]
    ELSE IF a.submit = "invisible" \/ ~a.click_ok
    THEN [filled |-> 2, clicked |-> FALSE, success |-> FALSE]
    ELSE [filled |-> 2, clicked |-> TRUE,
          success |-> ~a.check_raises /\ AnySuccessIndicator(a)]

\* the tag of an attempt in the log
AttemptTag(e) ==
    IF e.success THEN "success"
    ELSE IF e.clicked THEN "rejected"
    ELSE IF e.filled > 0 THEN "unsubmitted"
    ELSE "skipped"

NoAnswer == [AllFound EXCEPT !.email = "timeout"]
NoEffect == [filled |-> 0, clicked |-> FALSE, success |-> FALSE]

LgIdle == [pc |-> "idle", i |-> 0, success |-> FALSE, raised |-> FALSE,
           answer |-> NoAnswer, effect |-> NoEffect, log |-> <<>>]

\* the URLs find_workday_login_url can return
LoginUrls == {WorkdayUrl, LoginPage}

(***************************************************************************)
(* main, lines 1359-1406, initialize_browser (lines 120-151) and cleanup   *)
(* (lines 1282-1294).                                                      *)
(***************************************************************************)
AcquireOrder == <<"playwright", "browser", "context", "page">>
ReleaseOrder == <<"page", "context", "browser", "playwright">>

\* lines 1284-1294: one try around the four closes: the close that raises ends it.
\* fail_at is the position in ReleaseOrder of the close that raises, 0 for none.
RECURSIVE CloseFrom(_, _, _)
CloseFrom(k, holding, fail_at) ==
    IF k > Len(ReleaseOrder) THEN {}
    ELSE IF ReleaseOrder[k] \notin holding THEN CloseFrom(k + 1, holding, fail_at)
    ELSE IF k = fail_at THEN {}
    ELSE {ReleaseOrder[k]} \cup CloseFrom(k + 1, holding, fail_at)

CleanupReleases(holding, fail_at) == CloseFrom(1, holding, fail_at)

\* the handle whose close raised, if its close was called
CleanupFailure(holding, fail_at) ==
    IF fail_at > 0 /\ ReleaseOrder[fail_at] \in holding THEN {ReleaseOrder[fail_at]} ELSE {}

\* released.closed: the handles a close call released; released.failed: the handle
\* whose close call raised
NoneReleased == [closed |-> {}, failed |-> {}]

NoEvent == [tick |-> 0, url |-> WorkdayUrl, goto |-> FALSE, extracted |-> FALSE,
            outcome |-> "none", page_elements |-> <<>>, links |-> <<>>, delayed |-> FALSE,
            revisit |-> FALSE, rediscovered |-> FALSE, recovered |-> FALSE]

LabIdle == [pc |-> "idle", ctl |-> BaseControl, input_type |-> "text", out |-> Returned(<<>>)]


(***************************************************************************)
(* The run of main().                                                      *)
(***************************************************************************)
Init ==
    /\ pc = "main"
    /\ max_pages \in 0..MaxBudget
    /\ page_url = WorkdayUrl
    /\ visited_urls = {}
    /\ pages_to_visit = <<>>
    /\ pages_processed = 0
    /\ all_form_elements = <<>>
    /\ result = None
    /\ artifact = None
    /\ login_state = [called |-> FALSE, ret |-> FALSE, exhausted |-> FALSE]
    /\ held = {}
    /\ released = NoneReleased
    /\ exit_path = "none"
    /\ marked = {}
    /\ ev = NoEvent
    /\ lg = LgIdle
    /\ lab = LabIdle

\* initialize_browser, lines 120-151, called at line 1363: the handles are acquired
\* in order; an acquisition that raises leaves the earlier ones held and takes
\* main() through its except to the finally block
InitializeBrowser ==
    /\ pc = "main"
    /\ \E n \in 0..Len(AcquireOrder) :
        /\ held' = {AcquireOrder[k] : k \in 1..n}
        /\ pc' = IF n = Len(AcquireOrder) THEN "login" ELSE "cleanup"
        /\ exit_path' = IF n = Len(AcquireOrder) THEN exit_path ELSE "exception"
    /\ UNCHANGED <<max_pages, page_url, visited_urls, pages_to_visit, pages_processed,
                   all_form_elements, result, artifact, login_state, released,
                   marked, ev, lg, lab>>

\* login, lines 253-259: find the login URL, navigate to it.  The navigation is not
\* inside any strategy's try: when it raises, the outer except (line 392) runs.
LoginStart ==
    /\ pc = "login" /\ lg.pc = "idle"
    /\ \E login_url \in LoginUrls, goto_ok \in BOOLEAN :
        /\ page_url' = IF goto_ok THEN login_url ELSE page_url
        /\ lg' = [LgIdle EXCEPT !.pc = IF goto_ok THEN "strategies" ELSE "end",
                                !.raised = ~goto_ok]
    /\ UNCHANGED <<pc, max_pages, visited_urls, pages_to_visit, pages_processed,
                   all_form_elements, result, artifact, login_state, held, released,
                   exit_path, marked, ev, lab>>

\* lines 292-369: strategy lg.i + 1 met the answers a and had the effect e; success
\* breaks the loop (line 345), a click moves the browser
Attempt(a, e) ==
    /\ lg' = [lg EXCEPT !.i = @ + 1,
                        !.answer = a,
                        !.effect = e,
                        !.success = e.success,
                        !.log = Append(@, AttemptTag(e)),
                        !.pc = IF e.success \/ lg.i + 1 = LoginStrategies
                               THEN "end" ELSE "strategies"]
    /\ page_url' = IF e.clicked THEN a.url ELSE page_url

\* login, lines 291-369: one pass of the loop over login_attempts
LoginStrategy ==
    /\ pc = "login" /\ lg.pc = "strategies"
    /\ \E a \in StrategyAnswers : Attempt(a, TryStrategy(a))
    /\ UNCHANGED <<pc, max_pages, visited_urls, pages_to_visit, pages_processed,
                   all_form_elements, result, artifact, login_state, held, released,
                   exit_path, marked, ev, lab>>

\* a crawl that goes on whatever login() returned
AbortsCrawlNever(login_ok) == FALSE

\* lines 1210-1212: `if not await self.login(): return []`
AbortsCrawl(login_ok) == ~login_ok

\* login, lines 371-395, returning into crawl_and_extract, lines 1210-1219: False
\* makes the crawl return [], True seeds the frontier with the current page
LoginReturn ==
    /\ pc = "login" /\ lg.pc = "end"
    /\ login_state' = [called |-> TRUE, ret |-> lg.success,
                       exhausted |-> ~lg.success /\ ~lg.raised]
    /\ lg' = LgIdle
    /\ IF ~AbortsCrawl(lg.success)
       THEN /\ pages_to_visit' = <<page_url>>
            /\ pc' = "loop"
            /\ UNCHANGED result
       ELSE /\ result' = Some(<<>>)
            /\ pc' = "returned"
            /\ UNCHANGED pages_to_visit
    /\ UNCHANGED <<max_pages, page_url, visited_urls, pages_processed,
                   all_form_elements, artifact, held, released, exit_path, marked, ev, lab>>

\* whether the page shows a usable link to a URL of `seen`
Rediscovers(nav, seen, current) ==
    /\ ~nav.raises
    /\ \E i \in DOMAIN nav.scan :
        /\ ~nav.scan[i].raises /\ nav.scan[i].visible /\ nav.scan[i].href # None
        /\ Resolve(nav.scan[i].href[1], current) \in seen

\* lines 1224-1226: the popped URL is in visited_urls already
SkipPage(current_url, rest, tick) ==
    /\ pages_to_visit' = rest
    /\ ev' = [NoEvent EXCEPT !.tick = tick, !.url = current_url, !.outcome = "skipped",
                             !.recovered = ev.recovered]
    /\ UNCHANGED <<page_url, visited_urls, pages_processed, all_form_elements, marked>>

\* a failed navigation that is counted and marked like a processed page
FailPageCounted(current_url, rest, tick) ==
    /\ pages_to_visit' = rest
    /\ page_url' \in {page_url, current_url}
    /\ all_form_elements' = AfterPageError(all_form_elements)
    /\ visited_urls' = visited_urls \cup {current_url}
    /\ pages_processed' = pages_processed + 1
    /\ ev' = [NoEvent EXCEPT !.tick = tick, !.url = current_url, !.goto = TRUE,
                             !.outcome = "failed", !.revisit = current_url \in marked,
                             !.recovered = ev.recovered]
    /\ UNCHANGED marked

\* a failed navigation that puts the URL back at the end of the frontier
FailPageRequeues(current_url, rest, tick) ==
    /\ pages_to_visit' = Append(rest, current_url)
    /\ page_url' \in {page_url, current_url}
    /\ all_form_elements' = AfterPageError(all_form_elements)
    /\ ev' = [NoEvent EXCEPT !.tick = tick, !.url = current_url, !.goto = TRUE,
                             !.outcome = "failed", !.revisit = current_url \in marked,
                             !.recovered = ev.recovered]
    /\ UNCHANGED <<visited_urls, pages_processed, marked>>

\* lines 1231-1232 raising into lines 1260-1263: the navigation failed; the browser
\* may or may not have left the previous page
FailPage(current_url, rest, tick) ==
    /\ pages_to_visit' = rest
    /\ page_url' \in {page_url, current_url}
    /\ all_form_elements' = AfterPageError(all_form_elements)
    /\ ev' = [NoEvent EXCEPT !.tick = tick, !.url = current_url, !.goto = TRUE,
                             !.outcome = "failed", !.revisit = current_url \in marked,
                             !.recovered = ev.recovered]
    /\ UNCHANGED <<visited_urls, pages_processed, marked>>

\* lines 1235-1258: the page is marked visited, its elements are added, up to
\* LinksPerPage of its links are queued, the page is counted
ProcessPage(current_url, rest, tick, visited, page_elements, new_links, rediscovered) ==
    /\ page_url' = current_url
    /\ visited_urls' = visited
    /\ marked' = marked \cup {current_url}
    /\ all_form_elements' = all_form_elements \o page_elements
    /\ pages_to_visit' = Enqueue(rest, Take(new_links, LinksPerPage), visited)
    /\ pages_processed' = pages_processed + 1
    /\ ev' = [tick |-> tick, url |-> current_url,
              goto |-> page_url # current_url, extracted |-> TRUE,
              outcome |-> "processed", page_elements |-> page_elements,
              links |-> new_links,
              delayed |-> pages_processed + 1 < max_pages,
              revisit |-> current_url \in marked,
              rediscovered |-> rediscovered,
              recovered |-> ev.recovered \/ ev.outcome = "failed"]

\* lines 1223-1263: the body of the loop for the popped URL
VisitPage(current_url, rest, tick) ==
    IF AlreadyVisited(current_url, visited_urls)
    THEN SkipPage(current_url, rest, tick)
    ELSE \E goto_ok \in BOOLEAN, page \in Pages, nav \in NavAnswers :
            IF page_url # current_url /\ ~goto_ok
            THEN FailPage(current_url, rest, tick)
            ELSE ProcessPage(current_url, rest, tick,
                             MarkVisited(visited_urls, current_url),
                             ExtractFormElements(page),
                             FindNavigationLinks(nav, MarkVisited(visited_urls, current_url),
                                                 current_url),
                             Rediscovers(nav, marked \cup {current_url}, current_url))

\* crawl_and_extract, lines 1221-1263: one pass of the while loop
CrawlPage ==
    /\ pc = "loop"
    /\ LoopGuard(pages_to_visit, pages_processed, max_pages)
    /\ VisitPage(Head(pages_to_visit), Tail(pages_to_visit), 1 - ev.tick)
    /\ UNCHANGED <<pc, max_pages, result, artifact, login_state, held, released,
                   exit_path, lg, lab>>

\* crawl_and_extract, lines 1265-1275: the loop has ended
CrawlReturn ==
    /\ pc = "loop"
    /\ ~LoopGuard(pages_to_visit, pages_processed, max_pages)
    /\ result' = Some(UniqueCrawlElements(all_form_elements, {}))
    /\ pc' = "returned"
    /\ UNCHANGED <<max_pages, page_url, visited_urls, pages_to_visit, pages_processed,
                   all_form_elements, artifact, login_state, held, released,
                   exit_path, marked, ev, lg, lab>>

\* main, lines 1368-1397: export_results (lines 1296-1324) when there are results;
\* a failing write leaves no document
Report ==
    /\ pc = "returned"
    /\ \E write_ok \in BOOLEAN :
        artifact' = IF result[1] # <<>> /\ write_ok
                    THEN Some(ExportDocument(all_form_elements, visited_urls))
                    ELSE None
    /\ pc' = "cleanup"
    /\ exit_path' = IF login_state.ret THEN "completed" ELSE "login_failed"
    /\ UNCHANGED <<max_pages, page_url, visited_urls, pages_to_visit, pages_processed,
                   all_form_elements, result, login_state, held, released,
                   marked, ev, lg, lab>>

\* KeyboardInterrupt while crawl_and_extract is suspended at an await: the task is
\* cancelled, no `except Exception` catches it, main()'s finally runs
Interrupt ==
    /\ pc \in {"login", "loop"}
    /\ pc' = "cleanup"
    /\ exit_path' = "interrupt"
    /\ lg' = LgIdle
    /\ UNCHANGED <<max_pages, page_url, visited_urls, pages_to_visit, pages_processed,
                   all_form_elements, result, artifact, login_state, held, released,
                   marked, ev, lab>>

\* main's finally, lines 1404-1406: cleanup()
Cleanup ==
    /\ pc = "cleanup"
    /\ \E fail_at \in 0..Len(ReleaseOrder) :
        released' = [closed |-> CleanupReleases(held, fail_at),
                     failed |-> CleanupFailure(held, fail_at)]
    /\ pc' = "exit"
    /\ UNCHANGED <<max_pages, page_url, visited_urls, pages_to_visit, pages_processed,
                   all_form_elements, result, artifact, login_state, held,
                   exit_path, marked, ev, lg, lab>>

Next ==
    \/ InitializeBrowser
    \/ LoginStart
    \/ LoginStrategy
    \/ LoginReturn
    \/ CrawlPage
    \/ CrawlReturn
    \/ Report
    \/ Interrupt
    \/ Cleanup

Spec == Init /\ [][Next]_vars

\* The loop of crawl_and_extract is sequential code whose awaits are all bounded
\* by timeouts (lines 1231-1232, 1258): a pass that can be taken is taken, and
\* the code after the loop runs once the loop condition fails.
SpecLive == Spec /\ WF_vars(CrawlPage) /\ WF_vars(CrawlReturn)


(***************************************************************************)
(* _find_element_label on its own: the controls it is handed, one probe    *)
(* answer or attribute varied at a time and in combination.                *)
(***************************************************************************)
LongLabel == <<"First", Blank, "name">>

LabelControls ==
    { SetAttrs([BaseControl EXCEPT !.for_label = for_label, !.near = near,
                                   !.parent_text = parent_text],
               [type |-> type, id |-> id, name |-> name, placeholder |-> placeholder] @@
               ("aria-label" :> aria_label)) :
        type \in {None, Some(<<>>), Some(<<"text">>)},
        aria_label \in {None, Some(<<Blank>>), Some(<<"Email">>)},
        id \in {None, Some(<<"q">>)},
        for_label \in {NoProbe, Raises, Found(TRUE, LongLabel)},
        near \in {<<>>, <<Raises, Found(TRUE, <<"q">>), Found(TRUE, LongLabel)>>},
        placeholder \in {None, Some(<<Blank, "name">>)},
        parent_text \in {[st |-> "none", lines |-> <<>>], [st |-> "raise", lines |-> <<>>]},
        name \in {None, Some(<<"first", "_", "name">>)} }

InitLabel ==
    /\ pc = "label"
    /\ max_pages = 0
    /\ page_url = WorkdayUrl
    /\ visited_urls = {}
    /\ pages_to_visit = <<>>
    /\ pages_processed = 0
    /\ all_form_elements = <<>>
    /\ result = None
    /\ artifact = None
    /\ login_state = [called |-> FALSE, ret |-> FALSE, exhausted |-> FALSE]
    /\ held = {}
    /\ released = NoneReleased
    /\ exit_path = "none"
    /\ marked = {}
    /\ ev = NoEvent
    /\ lg = LgIdle
    /\ \E c \in LabelControls : lab = [LabIdle EXCEPT !.pc = "ready", !.ctl = c]

\* one call of _find_element_label(element): it returns a string or raises
ResolveLabel ==
    /\ pc = "label" /\ lab.pc = "ready"
    /\ lab' = [lab EXCEPT !.pc = "done", !.out = FindElementLabel(lab.ctl)]
    /\ UNCHANGED <<pc, max_pages, page_url, visited_urls, pages_to_visit, pages_processed,
                   all_form_elements, result, artifact, login_state, held, released,
                   exit_path, marked, ev, lg>>

NextLabel == ResolveLabel

SpecLabel == InitLabel /\ [][NextLabel]_vars


(***************************************************************************)
(* The functions of the session taken one at a time.  `session` is the     *)
(* part of the state a single call leaves alone; AtRest is a session on    *)
(* which main() is not running.                                            *)
(***************************************************************************)
session ==
    <<pc, max_pages, page_url, visited_urls, pages_to_visit, pages_processed,
      all_form_elements, result, artifact, login_state, held, released,
      exit_path, marked, ev, lg>>

AtRest(at) ==
    /\ pc = at
    /\ max_pages = 0
    /\ page_url = WorkdayUrl
    /\ visited_urls = {}
    /\ pages_to_visit = <<>>
    /\ pages_processed = 0
    /\ all_form_elements = <<>>
    /\ result = None
    /\ artifact = None
    /\ login_state = [called |-> FALSE, ret |-> FALSE, exhausted |-> FALSE]
    /\ held = {}
    /\ released = NoneReleased
    /\ exit_path = "none"
    /\ marked = {}
    /\ ev = NoEvent
    /\ lg = LgIdle

(***************************************************************************)
(* extract_form_elements on one document, run twice.  str(element) is the  *)
(* handle's preview text and hash() of a str is salted per interpreter     *)
(* process, so c.hash is the digest the process of the first run computes  *)
(* and a second run computes the same digest only in the same process.     *)
(***************************************************************************)
\* line 891: hash(str(element)) as the process with hash seed `seed` computes it
StrHash(digest, seed) == IF seed = 0 THEN digest ELSE digest \o "3"

\* the document as a run in the process with hash seed `seed` sees it
InProcess(dom, seed) == [i \in DOMAIN dom |-> [dom[i] EXCEPT !.hash = StrHash(@, seed)]]

HashSeeds == {0, 1}

\* a checkbox named "agree" with nothing to label it
PlainBox == SetAttrs([BaseControl EXCEPT !.hits = {<<"checkboxes", 1>>}],
                     [name |-> Some(<<"agree">>), type |-> Some(<<"checkbox">>)])

\* <input type="text" name="agree" aria-label="Text">: no checkbox, but it shares
\* the checkboxes' name
AgreeShadow == SetAttrs(BaseControl, [name |-> Some(<<"agree">>), type |-> Some(<<"text">>)] @@
                                     ("aria-label" :> Some(<<"Text">>)))

\* <input type="radio" name="choice" value=...>, its id and its aria-label
Radio(value, id, label) ==
    SetAttrs([BaseControl EXCEPT !.hits = {<<"radios", 1>>}],
             [name |-> Some(<<"choice">>), type |-> Some(<<"radio">>), value |-> value,
              id |-> id] @@ ("aria-label" :> label))

\* a radio whose label query fails: label[for="r1"] raises
BrokenRadio == [Radio(Some(<<"first">>), Some(<<"r1">>), None) EXCEPT !.for_label = Raises]

RadioDocuments ==
    { <<Radio(Some(<<"first">>), None, None), Radio(Some(<<"name">>), None, None)>>,
      <<Radio(None, None, Some(<<"Email">>)), Radio(Some(<<"name">>), None, None)>>,
      <<Radio(None, None, None), Radio(None, None, None)>>,
      <<[Radio(None, None, None) EXCEPT !.visible = FALSE]>>,
      <<BrokenRadio, Radio(Some(<<"name">>), Some(<<"r2">>), Some(<<"Email">>))>>,
      <<Radio(Some(<<"name">>), Some(<<"r2">>), Some(<<"Email">>)), BrokenRadio>> }

ControlPool ==
    {EmailInput, BoxInput, BareInput, BareTextarea, EmailTextarea, QSelect,
     AgreeBox(<<"first">>), AgreeBox(<<"name">>), HiddenInput, PlainBox}

Documents ==
    {<<>>} \cup {<<a>> : a \in ControlPool} \cup {<<a, b>> : a, b \in ControlPool} \cup
    { <<AgreeBox(<<"first">>), AgreeBox(<<"name">>), AgreeBox(<<"email">>)>>,
      <<AgreeBox(<<"first">>), AgreeBox(<<"name">>), AgreeBox(<<"first">>)>>,
      <<AgreeBox(<<"first">>), AgreeShadow, AgreeBox(<<"name">>)>>,
      <<PlainBox, PlainBox, PlainBox>> }
    \cup RadioDocuments

InitExtract ==
    /\ AtRest("extract")
    /\ \E dom \in Documents :
        lab = [pc |-> "ready", doc |-> dom, first |-> <<>>, seed |-> 0, second |-> <<>>,
               accumulated |-> <<>>, result |-> <<>>]

\* extract_form_elements(), lines 475-515, on the document
ExtractFirst ==
    /\ pc = "extract" /\ lab.pc = "ready"
    /\ lab' = [lab EXCEPT !.pc = "once", !.first = ExtractFormElements(Page(lab.doc))]
    /\ UNCHANGED session

\* extract_form_elements() again on the unchanged document, in the same process
\* or in a new one
ExtractSecond ==
    /\ pc = "extract" /\ lab.pc = "once"
    /\ \E seed \in HashSeeds :
        lab' = [lab EXCEPT !.pc = "twice", !.seed = seed,
                           !.second = ExtractFormElements(Page(InProcess(lab.doc, seed)))]
    /\ UNCHANGED session

\* the pages a crawl may process after the document
NextDocuments == {<<>>, <<EmailTextarea>>, <<BoxInput, EmailInput>>, <<BareInput, QSelect>>}

\* crawl_and_extract, lines 1238-1242 and 1265-1275: the elements of the document
\* and then those of the next page processed are added to all_form_elements, and
\* the crawl returns the de-duplicated list
ExtractNextPage ==
    /\ pc = "extract" /\ lab.pc = "once"
    /\ \E dom \in NextDocuments :
        lab' = [lab EXCEPT !.pc = "crawled",
                           !.accumulated = lab.first \o ExtractFormElements(Page(dom))]
    /\ UNCHANGED session

CrawlResult ==
    /\ pc = "extract" /\ lab.pc = "crawled"
    /\ lab' = [lab EXCEPT !.pc = "returned",
                          !.result = UniqueCrawlElements(lab.accumulated, {})]
    /\ UNCHANGED session

NextExtract == ExtractFirst \/ ExtractSecond \/ ExtractNextPage \/ CrawlResult

SpecExtract == InitExtract /\ [][NextExtract]_vars

(***************************************************************************)
(* Properties.                                                             *)
(***************************************************************************)
IdsOf(elements) == {elements[i].id_of_input_component : i \in DOMAIN elements}

\* every id is a non-empty string and no two elements share one
WellIdentified(elements) ==
    /\ \A i \in DOMAIN elements : elements[i].id_of_input_component # ""
    /\ \A i, j \in DOMAIN elements :
        elements[i].id_of_input_component = elements[j].id_of_input_component => i = j

\* C1: whatever the page budget (0 included) and the links the pages show, once
\* crawl_and_extract has returned visited_urls holds at most max_pages URLs.
C1_VisitedWithinBudget ==
    result # None => Cardinality(visited_urls) <= max_pages

\* C1 case: a crawl that returned after it used the whole of a positive budget
C1_BudgetUsedUp ==
    /\ result # None
    /\ login_state.ret
    /\ max_pages = MaxBudget
    /\ Cardinality(visited_urls) = max_pages

\* C2: a URL that line 1235 has put into visited_urls is never again the target of
\* a navigation or an extraction, and is never queued again, also when a later
\* page shows a link to it.
C2_NoRevisit ==
    /\ ~ev.revisit
    /\ \A i \in DOMAIN pages_to_visit : pages_to_visit[i] \notin marked

\* C2 case: the second page processed shows a link to a page visited before it,
\* and the crawl went on to return
C2_VisitedRediscovered ==
    /\ ev.outcome = "processed"
    /\ ev.rediscovered
    /\ Cardinality(marked) >= 2
    /\ result # None

\* C3: the list extract_form_elements returned for the last page, and the list
\* crawl_and_extract returned, hold only non-empty ids, each at most once.
C3_IdsNonEmptyDistinct ==
    /\ WellIdentified(ev.page_elements)
    /\ result # None => WellIdentified(result[1])

\* C3 case: a crawl that returned several elements after the crawl-level
\* de-duplication dropped one that two pages shared
C3_DuplicatesDropped ==
    /\ result # None
    /\ Len(result[1]) >= 2
    /\ Len(all_form_elements) > Len(result[1])
    /\ Len(ev.page_elements) >= 2

\* C4: the document written after a crawl holds the de-duplicated elements
\* crawl_and_extract returned, and its total_elements is their number.
C4_ArtifactIsDeduplicated ==
    artifact # None =>
        /\ artifact[1].form_elements = result[1]
        /\ artifact[1].total_elements = Len(result[1])

\* C5: when every login strategy was tried and none succeeded, login() returned
\* False and the crawl was aborted: the loop handled no page, visited_urls and the
\* accumulator are empty, the result is the empty list.
C5_FailedLoginAbortsCrawl ==
    login_state.exhausted =>
        /\ ~login_state.ret
        /\ result = Some(<<>>)
        /\ visited_urls = {}
        /\ all_form_elements = <<>>
        /\ pages_to_visit = <<>>
        /\ ev = NoEvent

\* C5 case: a run that ended after all four strategies failed
C5_AllStrategiesFailed ==
    /\ login_state.exhausted
    /\ pc = "exit"
    /\ exit_path = "login_failed"

\* C6: a strategy whose email, password or submit control is absent, invisible or
\* timed out fills no field and submits nothing; a strategy that met a success
\* indicator ends the loop.
C6_UnlocatedControlSkips ==
    /\ lg.i > 0 /\ ( \/ lg.answer.email # "visible"
                     \/ lg.answer.password # "visible"
                     \/ lg.answer.submit # "visible" )
        => lg.effect.filled = 0 /\ ~lg.effect.clicked
    /\ lg.success => lg.pc = "end"

\* C7: a page whose navigation failed changes neither the accumulator nor
\* visited_urls and leaves the loop running; no pass of the loop, whatever fails
\* in it, takes an element out of the accumulator; and what crawl_and_extract
\* returns after a successful login holds every id the accumulator holds.
C7_PageErrorKeepsCrawl ==
    /\ [](result # None /\ login_state.ret => IdsOf(result[1]) = IdsOf(all_form_elements))
    /\ [][ev' # ev /\ ev'.outcome = "failed" =>
            /\ all_form_elements' = all_form_elements
            /\ visited_urls' = visited_urls
            /\ pc' = "loop"]_vars
    /\ [][/\ Len(all_form_elements') >= Len(all_form_elements)
          /\ SubSeq(all_form_elements', 1, Len(all_form_elements)) = all_form_elements]_vars

\* C7 case: a crawl that returned elements of a page processed before a failed
\* page and of a page processed after it
C7_FailureBetweenPages ==
    /\ result # None
    /\ ev.outcome = "processed"
    /\ ev.recovered
    /\ ev.page_elements # <<>>
    /\ Len(all_form_elements) > Len(ev.page_elements)
    /\ IdsOf(result[1]) = IdsOf(all_form_elements)

\* C8: login() returns False, and so the crawl is aborted, only after all login
\* strategies were tried without success; a single timeout, the navigation to the
\* login URL included, does not abort it.
C8_AbortOnlyAfterAllStrategies ==
    login_state.called /\ ~login_state.ret => login_state.exhausted

\* C9: when the run has ended every handle that was acquired has been released;
\* when the close of one handle failed, all the other handles have been released.
C9_AllReleased ==
    pc = "exit" => (held \ released.failed) \subseteq released.closed

\* C10: _find_element_label returns a non-empty string whatever the control's
\* attributes and surroundings are.
C10_LabelTotal ==
    lab.pc = "done" => lab.out.ok /\ TextLen(lab.out.text) > 0

(***************************************************************************)
(* _is_element_required on one control.                                    *)
(***************************************************************************)
RequiredParents ==
    { [present |-> FALSE, indicators |-> 0, html |-> <<>>, class |-> None],
      [present |-> TRUE, indicators |-> 0, html |-> <<"input">>, class |-> None],
      [present |-> TRUE, indicators |-> 1, html |-> <<"input">>, class |-> None],
      [present |-> TRUE, indicators |-> 0, html |-> <<"input", "*">>,
       class |-> Some(<<"required">>)] }

RequiredControls ==
    { SetAttrs([BaseControl EXCEPT !.parent = parent, !.req_fail = req_fail],
               [required |-> required, class |-> class] @@
               ("aria-required" :> aria_required)) :
        required \in {None, Some(<<>>), Some(<<"required">>)},
        aria_required \in {None, Some(<<"true">>), Some(<<"false">>)},
        class \in {None, Some(<<"required">>), Some(<<"wd", Blank, "input">>)},
        parent \in RequiredParents,
        req_fail \in 0..7 }

InitRequired ==
    /\ AtRest("required")
    /\ \E c \in RequiredControls : lab = [pc |-> "ready", ctl |-> c, out |-> FALSE]

\* one call of _is_element_required(element)
ResolveRequired ==
    /\ pc = "required" /\ lab.pc = "ready"
    /\ lab' = [lab EXCEPT !.pc = "done", !.out = IsElementRequired(lab.ctl)]
    /\ UNCHANGED session

NextRequired == ResolveRequired

SpecRequired == InitRequired /\ [][NextRequired]_vars

(***************************************************************************)
(* _get_select_options on one control.                                     *)
(***************************************************************************)
MaxEntries == 3

OptionEntries ==
    { [text |-> text, value |-> value, raises |-> FALSE] :
        text \in {<<"first">>, <<Blank, "name", Blank>>, <<"Select...">>, <<>>},
        value \in {None, Some(<<"1">>)} }
    \cup {[text |-> <<"email">>, value |-> None, raises |-> TRUE]}

EntryLists ==
    UNION {[1..n -> OptionEntries] : n \in 0..MaxEntries}

Item(text) == [text |-> text, visible |-> TRUE, raises |-> FALSE]

PopupLists ==
    { <<>>,
      <<[st |-> "raise", items |-> <<>>], [st |-> "ok", items |-> <<Item(<<"first">>)>>]>>,
      <<[st |-> "ok", items |-> <<[Item(<<"first">>) EXCEPT !.visible = FALSE]>>]>> }

SuggestionLists ==
    { <<>>,
      <<[st |-> "ok", items |-> <<Item(<<"first">>), Item(<<Blank, "name">>)>>]>>,
      <<[st |-> "ok", items |-> <<Item(<<"first">>), Item(<<"first">>)>>]>>,
      <<[st |-> "ok", items |-> <<>>], [st |-> "raise", items |-> <<>>]>>,
      <<[st |-> "ok", items |-> <<Item(<<"first">>),
                                  [Item(<<"name">>) EXCEPT !.raises = TRUE]>>]>> }

OptionControls ==
    { [BaseControl EXCEPT !.tag = "select",
                          !.native = [st |-> "ok", entries |-> entries]] :
        entries \in EntryLists \ {<<>>} }
    \cup
    { SetAttrs([BaseControl EXCEPT !.native = [st |-> st, entries |-> <<>>],
                                   !.custom = [open_ok |-> open_ok, popups |-> popups,
                                               typeahead_ok |-> typeahead_ok,
                                               suggestions |-> suggestions]],
               [value |-> value]) :
        st \in {"ok", "raise"},
        open_ok \in BOOLEAN, popups \in PopupLists,
        typeahead_ok \in BOOLEAN, suggestions \in SuggestionLists,
        value \in {None, Some(<<"q">>)} }

InitOptions ==
    /\ AtRest("options")
    /\ \E c \in OptionControls :
        lab = [pc |-> "ready", ctl |-> c, out |-> <<>>,
               fx |-> [clicked |-> FALSE, typed |-> FALSE, close_attempted |-> FALSE,
                       text |-> ControlText(c)]]

\* one call of _get_select_options(select_element)
ResolveOptions ==
    /\ pc = "options" /\ lab.pc = "ready"
    /\ lab' = [lab EXCEPT !.pc = "done", !.out = GetSelectOptions(lab.ctl),
                          !.fx = SelectEffects(lab.ctl)]
    /\ UNCHANGED session

NextOptions == ResolveOptions

SpecOptions == InitOptions /\ [][NextOptions]_vars

(***************************************************************************)
(* find_workday_login_url on one start URL and one site.                   *)
(***************************************************************************)
SignInPage == Url(BaseDomain, "/sign-in", "")
JobDetails == Url(BaseDomain, "/details/job", "src=ad")

StartUrls == {WorkdayUrl, JobDetails, SignInPage, LoginPage}

Landings == {HomePage, SignInPage, Url(BaseDomain, "/Login", ""),
             Url(BaseDomain, "/jobs", "next=login")}

Entry(visible, raises, to) == [visible |-> visible, raises |-> raises, to |-> to]

EntryAnswers(start_url) ==
    { <<>>,
      <<[st |-> "raise", elements |-> <<>>]>>,
      <<[st |-> "ok", elements |-> <<Entry(FALSE, FALSE, Some(ApplyPage))>>]>>,
      <<[st |-> "ok", elements |-> <<Entry(TRUE, FALSE, None)>>]>>,
      <<[st |-> "ok", elements |-> <<Entry(TRUE, TRUE, Some(ApplyPage)),
                                     Entry(TRUE, FALSE, Some(ApplyPage))>>],
        [st |-> "ok", elements |-> <<Entry(TRUE, FALSE, Some(start_url)),
                                     Entry(TRUE, FALSE, None)>>]>>,
      <<[st |-> "ok", elements |-> <<Entry(TRUE, FALSE, Some(start_url)),
                                     Entry(TRUE, FALSE, Some(LoginPage))>>]>> }

FormAnswers ==
    { <<"none", "none", "none", "none">>, <<"raise", "raise", "raise", "raise">>,
      <<"raise", "form", "none", "none">>, <<"none", "none", "none", "form">> }

Sites(start_url) ==
    [goto_ok : BOOLEAN, landed : {start_url} \cup Landings,
     entries : EntryAnswers(start_url), forms : FormAnswers]

InitLocator ==
    /\ AtRest("locator")
    /\ \E start_url \in StartUrls : \E site \in Sites(start_url) :
        lab = [pc |-> "ready", start_url |-> start_url, site |-> site,
               out |-> [ret |-> None, page |-> start_url, clicks |-> 0, gotos |-> 0]]

\* one call of find_workday_login_url(start_url)
LocateLogin ==
    /\ pc = "locator" /\ lab.pc = "ready"
    /\ lab' = [lab EXCEPT !.pc = "done",
                          !.out = FindWorkdayLoginUrl(lab.start_url, lab.site)]
    /\ UNCHANGED session

NextLocator == LocateLogin

SpecLocator == InitLocator /\ [][NextLocator]_vars

\* a control nothing names: label rules 1-8 find no aria-label, no label element,
\* no nearby or ancestor text, no placeholder or title, no automation id, no name
Unlabelled(c) ==
    /\ \A n \in {"aria-label", "aria-labelledby", "placeholder", "title",
                 "data-automation-id", "name"} \cap AttrNames : ~Truthy(GetAttribute(c, n))
    /\ c.labelledby = NoProbe /\ c.for_label = NoProbe
    /\ c.near = <<>> /\ c.ancestors = <<>> /\ c.parent_text.st = "none"

\* the categories whose controls are emitted one by one
PlainCategories == {"text_inputs", "textareas", "selects", "date_inputs", "file_inputs"}

\* C11: a visible, enabled control that no label rule names is still emitted, and
\* its label is "Unnamed <category> field" for the category it was extracted as,
\* also when the control has no type attribute (a textarea).
C11_UnnamedControlEmitted ==
    lab.pc = "once" =>
        \A i \in DOMAIN lab.doc :
            ( /\ Unlabelled(lab.doc[i])
              /\ lab.doc[i].visible /\ ~lab.doc[i].disabled
              /\ \E h \in lab.doc[i].hits : h[1] \in PlainCategories )
            => \E k \in DOMAIN lab.first :
                /\ lab.first[k].id_of_input_component = ElementId(lab.doc[i])
                /\ lab.first[k].label =
                       <<"Unnamed", Blank, lab.first[k].type_of_input, Blank, "field">>

\* C12: a control that carries the native required attribute, read without a
\* failure, is resolved required whatever aria-required, class and the parent hold
\* and whichever later read fails.
C12_NativeRequiredWins ==
    ( /\ lab.pc = "done"
      /\ GetAttribute(lab.ctl, "required") # None
      /\ lab.ctl.req_fail # 1 )
    => lab.out = TRUE

\* C12 witness: required is set, aria-required says "false", class and parent say
\* nothing, and the control was resolved required
C12_RequiredAgainstTheRest ==
    /\ lab.pc = "done"
    /\ GetAttribute(lab.ctl, "required") = Some(<<>>)
    /\ GetAttribute(lab.ctl, "aria-required") = Some(<<"false">>)
    /\ GetAttribute(lab.ctl, "class") = Some(<<"wd", Blank, "input">>)
    /\ ~lab.ctl.parent.present
    /\ lab.ctl.req_fail = 2
    /\ lab.out = TRUE

\* the stripped visible texts of the entries, one per entry, in DOM order
EntryTexts(entries) == [i \in DOMAIN entries |-> Join(Strip(entries[i].text))]

\* a native choice control: at least one and at most OptionsCap entries, none of
\* them showing a placeholder sentinel
NativeNoSentinel(c) ==
    /\ c.native.st = "ok"
    /\ c.native.entries # <<>> /\ Len(c.native.entries) <= OptionsCap
    /\ \A i \in DOMAIN c.native.entries :
        LowerText(Strip(c.native.entries[i].text)) \notin NativePlaceholders

SameNamedBoxes(dom, i) ==
    { j \in DOMAIN dom :
        /\ \E h \in dom[j].hits : h[1] = "checkboxes"
        /\ dom[j].visible /\ ~dom[j].disabled
        /\ Truthy(GetAttribute(dom[j], "name"))
        /\ GetAttribute(dom[j], "name") = GetAttribute(dom[i], "name") }

\* the elements of a result that carry the id of one of the controls `members`
ElementsOf(elements, dom, members) ==
    { k \in DOMAIN elements :
        \E j \in members : elements[k].id_of_input_component = ElementId(dom[j]) }

\* C14: n >= 2 visible checkboxes that share a name give exactly one element of
\* the page's result, and its options list has exactly n entries.
C14_GroupHasOptionPerMember ==
    lab.pc = "once" =>
        \A i \in DOMAIN lab.doc :
            Cardinality(SameNamedBoxes(lab.doc, i)) >= 2
            => /\ Cardinality(ElementsOf(lab.first, lab.doc, SameNamedBoxes(lab.doc, i))) = 1
               /\ \A k \in ElementsOf(lab.first, lab.doc, SameNamedBoxes(lab.doc, i)) :
                    /\ lab.first[k].options # None
                    /\ Len(lab.first[k].options[1])
                         = Cardinality(SameNamedBoxes(lab.doc, i))

\* C15: when the URL reached by the initial navigation and its redirects contains
\* a login keyword (login, signin, sign-in), that URL is returned unchanged, with
\* no click and no further navigation.
C15_LoginUrlReturnedAtOnce ==
    ( /\ lab.pc = "done" /\ lab.site.goto_ok
      /\ UrlKeywords(lab.site.landed) \cap {"login", "signin", "sign-in"} # {} )
    => /\ lab.out.ret = Some(lab.site.landed)
       /\ lab.out.clicks = 0 /\ lab.out.gotos = 0

\* no click of an entry-point control loads a page
NoEntryLeadsAway(site) ==
    \A i \in DOMAIN site.entries : \A j \in DOMAIN site.entries[i].elements :
        site.entries[i].elements[j].to = None

C17_ClearedAfterTypeahead ==
    (lab.pc = "done" /\ ReachesTypeahead(lab.ctl) /\ lab.ctl.custom.typeahead_ok)
    => /\ lab.fx.typed
       /\ lab.fx.text = <<>>
       /\ lab.ctl.custom.suggestions =
              <<[st |-> "ok", items |-> <<Item(<<"first">>), Item(<<Blank, "name">>)>>]>>
          => lab.out = <<"first", "name">>

\* C18: a second run of extract_form_elements on the unchanged document returns
\* the same sequence of elements as the first: ids, labels, required flags,
\* categories, options and sample values, in the same order.
C18_SecondRunSame ==
    lab.pc = "twice" => lab.second = lab.first

\* C19: the crawl loop terminates: it is left once entered, a pass of the loop is
\* taken only while the frontier is non-empty and pages_processed is below the
\* budget, and the loop is left by its condition only when the frontier is empty
\* or pages_processed has reached the budget.
C19_LoopTerminates ==
    /\ (pc = "loop") ~> (pc # "loop")
    /\ [][(pc = "loop" /\ pc' = "loop")
            => (pages_to_visit # <<>> /\ pages_processed < max_pages)]_vars
    /\ [][(pc = "loop" /\ pc' = "returned")
            => (pages_to_visit = <<>> \/ pages_processed >= max_pages)]_vars

\* C19 witness: after a failed navigation the loop ended on the budget with URLs
\* still waiting in the frontier
C19_EndedOnBudget ==
    /\ pc = "returned"
    /\ max_pages > 0 /\ pages_processed = max_pages
    /\ pages_to_visit # <<>>
    /\ ev.recovered

\* the links of a page that are neither visited nor in the frontier, in
\* discovery order
EligibleLinks(links, visited, frontier) ==
    LET Fresh(u) == u \notin visited /\ ~InSeq(u, frontier)
    IN  SelectSeq(links, Fresh)

\* C20: a pass that processes a page appends to the frontier the first min(5, k)
\* of the k links discovered on the page that are neither visited nor already in
\* the frontier, in discovery order.
C20_EnqueuesFirstEligible ==
    [][(pc = "loop" /\ ev'.tick # ev.tick /\ ev'.outcome = "processed")
        => pages_to_visit' =
             Tail(pages_to_visit) \o
             Take(EligibleLinks(ev'.links, visited_urls', Tail(pages_to_visit)),
                  LinksPerPage)]_vars

\* C21: every URL find_navigation_links returns for the page just processed has
\* the base domain as host, is neither visited nor queued in the frontier, has a
\* path other than the page's and no exclusion keyword; no URL is returned twice.
C21_LinksAreNew ==
    [][(pc = "loop" /\ ev'.tick # ev.tick /\ ev'.outcome = "processed")
        => /\ \A i \in DOMAIN ev'.links :
                /\ ev'.links[i].host = BaseDomain
                /\ ev'.links[i] \notin visited_urls'
                /\ ~InSeq(ev'.links[i], Tail(pages_to_visit))
                /\ ev'.links[i].path # ev'.url.path
                /\ ~HasSkipKeyword(ev'.links[i])
           /\ \A i, j \in DOMAIN ev'.links : ev'.links[i] = ev'.links[j] => i = j]_vars

\* C22: after a page is processed and counted, the inter-page delay is applied
\* exactly when more pages remain to process: the frontier is non-empty and the
\* budget is not exhausted.
C22_DelayOnlyBeforeAnotherPage ==
    ev.outcome = "processed"
    => (ev.delayed <=> (pages_to_visit # <<>> /\ pages_processed < max_pages))

\* C23: whenever _get_select_options takes the custom-dropdown path (the control
\* has no native option entries), closing the popup is attempted before it
\* returns, whatever happened on the path.
C23_CloseAlwaysAttempted ==
    (lab.pc = "done" /\ lab.ctl.native.st = "ok" /\ lab.ctl.native.entries = <<>>)
    => lab.fx.close_attempted

\* what probe k of _is_element_required finds when it is evaluated: 1 the native
\* required attribute, 2 aria-required, 3 the control's class, 5 an indicator
\* element under the parent, 6 the parent's content, 7 the parent's class
ProbeMatches(c, k) ==
    CASE k = 1 -> GetAttribute(c, "required") # None
      [] k = 2 -> GetAttribute(c, "aria-required") = Some(<<"true">>)
      [] k = 3 -> Contains(OrEmpty(GetAttribute(c, "class")), "required")
      [] k = 5 -> c.parent.present /\ c.parent.indicators > 0
      [] k = 6 -> /\ c.parent.present
                  /\ (Contains(c.parent.html, "*") \/ Contains(c.parent.html, "required"))
      [] k = 7 -> c.parent.present /\ Contains(OrEmpty(c.parent.class), "required")

\* C24: _is_element_required returns true whenever one of its probes matches; a
\* probe whose read fails is a non-match only, the other probes still count.  (The
\* probes under the parent need the parent: step 4, locating it, is not failing.)
C24_AnyMatchIsRequired ==
    lab.pc = "done" =>
        \A k \in {1, 2, 3, 5, 6, 7} :
            ( /\ ProbeMatches(lab.ctl, k)
              /\ lab.ctl.req_fail # k
              /\ k > 4 => lab.ctl.req_fail # 4 )
            => lab.out = TRUE

\* probes 1 and 2 of the label chain yield nothing for the control
NoAriaLabel(c) ==
    /\ ~(Truthy(GetAttribute(c, "aria-label"))
         /\ TextLen(Strip(GetAttribute(c, "aria-label")[1])) > 0)
    /\ LabelFromLabelledBy(c) = LabelFromForLabel(c)

\* C25: a failing label probe does not abort the chain: when the query of probe 3
\* (the label element for the control's id) fails, the label is the one probes
\* 4..9 determine, and when probe 7 (the parent's text) fails after probes 1..6
\* found nothing, the label is the one probes 8 and 9 determine.
C25_FailedProbePassedOver ==
    lab.pc = "done" =>
        /\ ( /\ NoAriaLabel(lab.ctl)
             /\ Truthy(GetAttribute(lab.ctl, "id")) /\ lab.ctl.for_label.st = "raise" )
           => lab.out = LabelFromStructure(lab.ctl)
        /\ ( /\ NoAriaLabel(lab.ctl)
             /\ ~Truthy(GetAttribute(lab.ctl, "id"))
             /\ LabelFromStructure(lab.ctl) = LabelFromNearbyText(lab.ctl)
             /\ lab.ctl.parent_text.st = "raise" )
           => lab.out = LabelFromAttributes(lab.ctl)

\* the positions of a list of elements whose id occurs at no earlier position
FirstPositions(q) ==
    { i \in DOMAIN q :
        \A j \in 1..(i - 1) : q[j].id_of_input_component # q[i].id_of_input_component }

\* `kept` is `q` restricted to the first occurrence of each id, in q's order
KeepsFirstSeen(kept, q) ==
    /\ Len(kept) = Cardinality(FirstPositions(q))
    /\ \A i \in FirstPositions(q) :
        kept[Cardinality({j \in FirstPositions(q) : j <= i})] = q[i]

\* the place of an element's category in the order text, textarea,
\* select/multiselect, checkbox, radio, date, file
CategoryRank(e) ==
    CASE e.type_of_input = "text" -> 1
      [] e.type_of_input = "textarea" -> 2
      [] e.type_of_input \in {"select", "multiselect"} -> 3
      [] e.type_of_input = "checkbox" -> 4
      [] e.type_of_input = "radio" -> 5
      [] e.type_of_input = "date" -> 6
      [] e.type_of_input = "file" -> 7

\* C26: of several extracted controls with the same id the one met first in
\* extraction order is kept, and the kept elements stay in extraction order: a
\* page's result is the first occurrences of the category-ordered list (so its
\* categories never go back), and the crawl's result is the first occurrences
\* of the pages' results in visit order.
C26_FirstSeenWins ==
    /\ lab.pc # "ready"
       => /\ KeepsFirstSeen(lab.first, AllPageElements(lab.doc))
          /\ \A i, j \in DOMAIN lab.first :
                i < j => CategoryRank(lab.first[i]) <= CategoryRank(lab.first[j])
    /\ lab.pc = "returned"
       => /\ KeepsFirstSeen(lab.result, lab.accumulated)
          /\ SubSeq(lab.accumulated, 1, Len(lab.first)) = lab.first

\* C26 witness: a text input and a textarea of one page share the id "email",
\* the input was kept, and the next page's textarea with that id was dropped from
\* the crawl's result
C26_LaterDuplicatesDropped ==
    /\ lab.pc = "returned"
    /\ lab.doc = <<EmailTextarea, EmailInput>>
    /\ Len(lab.first) = 1 /\ lab.first[1].type_of_input = "text"
    /\ Len(lab.accumulated) = 2 /\ lab.accumulated[2].type_of_input = "textarea"
    /\ lab.result = lab.first

\* the visible, enabled radios of the document that share the name of its i-th
\* control
SameNamedRadios(dom, i) ==
    { j \in DOMAIN dom :
        /\ \E h \in dom[j].hits : h[1] = "radios"
        /\ dom[j].visible /\ ~dom[j].disabled
        /\ Truthy(GetAttribute(dom[j], "name"))
        /\ GetAttribute(dom[j], "name") = GetAttribute(dom[i], "name") }

\* the radio elements of a result
RadioElements(elements) ==
    {k \in DOMAIN elements : elements[k].type_of_input = "radio"}

\* C27: a group of visible, enabled radios that share a name yields exactly one
\* element of the page (the documents have at most one group), also when the
\* element data of the first member cannot be built, and the element has options.
C27_OneElementPerRadioGroup ==
    lab.pc = "once" =>
        \A i \in DOMAIN lab.doc :
            SameNamedRadios(lab.doc, i) # {}
            => /\ Cardinality(RadioElements(lab.first)) = 1
               /\ \A k \in RadioElements(lab.first) :
                    lab.first[k].options # None /\ lab.first[k].options[1] # <<>>

\* C28: throughout the crawl the frontier holds no URL twice and no URL of
\* visited_urls, so the URL popped is never a visited one: no pass of the loop
\* takes the branch that skips an already visited URL.
C28_FrontierFresh ==
    /\ \A i, j \in DOMAIN pages_to_visit : pages_to_visit[i] = pages_to_visit[j] => i = j
    /\ \A i \in DOMAIN pages_to_visit : pages_to_visit[i] \notin visited_urls
    /\ ev.outcome # "skipped"

\* C28 witness: the page just processed showed a link to a visited page, two pages
\* are visited and URLs are still queued
C28_RediscoveredWhileQueued ==
    /\ pc = "loop"
    /\ ev.outcome = "processed" /\ ev.rediscovered
    /\ Cardinality(visited_urls) = 2
    /\ Len(pages_to_visit) >= 2

Submissions(log) ==
    Cardinality({i \in 1..Len(log) : log[i] \in {"success", "rejected"}})

\* C30: login returns True only when the strategy that ended the loop had located
\* a visible email field, a visible password field and a submit control and had
\* clicked submit; each strategy leaves one entry in the log, so one login call
\* submits at most four times; and after a submission that met no success
\* indicator the loop goes on with the next strategy on the page the submission
\* led to.
C30_SuccessOnlyAfterSubmit ==
    /\ [][(~login_state.called /\ login_state'.called /\ login_state'.ret)
            => /\ lg.success /\ lg.effect.clicked
               /\ lg.answer.email = "visible" /\ lg.answer.password = "visible"
               /\ SubmitLocated(lg.answer)
               /\ lg.log[lg.i] = "success"]_vars
    /\ [](/\ Len(lg.log) = lg.i /\ lg.i <= LoginStrategies
          /\ Submissions(lg.log) <= LoginStrategies)
    /\ [][(lg'.i = lg.i + 1 /\ lg'.effect.clicked /\ ~lg'.effect.success)
            => /\ page_url' = lg'.answer.url
               /\ lg'.pc = IF lg'.i < LoginStrategies THEN "strategies" ELSE "end"
               /\ ~lg'.success]_vars

\* C30 witness: all four strategies submitted, the first three met no success
\* indicator, the fourth did, and login is about to return True
C30_FourthSubmissionSucceeds ==
    /\ pc = "login" /\ lg.pc = "end"
    /\ lg.log = <<"rejected", "rejected", "rejected", "success">>
    /\ lg.success /\ lg.effect.clicked
    /\ Submissions(lg.log) = LoginStrategies

=============================================================================
